---------------------------- MODULE Spec2Model ----------------------------
(***************************************************************************)
(* Model of the "Focus" productivity application: the habit store of       *)
(* HabitTracker (validated variant, src/src/components/HabitTracker.tsx    *)
(* lines 475-1194), the habit detail dialog (src/unnamed/part_001) and the *)
(* analytics aggregators (src/unnamed/part_003, local storage; and         *)
(* src/src/components/DateRangePicker.tsx lines 107-254, remote store).    *)
(*                                                                         *)
(* Conventions.                                                            *)
(*  - An instant (a JavaScript Date) is a number of hours since the epoch   *)
(*    of the model, 2024-01-01T00:00Z, a Monday.                           *)
(*  - A date string "yyyy-MM-dd" is the number of its calendar day         *)
(*    counted from 2024-01-01 (day 0).  The two ways the code produces a   *)
(*    date string from an instant are kept apart: ISODate (UTC, from       *)
(*    toISOString) and FormatDate (local time, from date-fns format).      *)
(*  - A JavaScript object used as a map is a function whose DOMAIN is the  *)
(*    set of its keys.                                                     *)
(*  - A string the code trims or measures is a sequence of characters.     *)
(***************************************************************************)
EXTENDS Integers, Sequences, FiniteSets, TLC

VARIABLES
    habits,               \* HabitTracker: useState<Habit[]>
    showForm,             \* HabitTracker: the create form is shown
    newHabit,             \* HabitTracker: the create form's data
    editingId,            \* HabitTracker: id of the habit being edited, or Null
    editForm,             \* HabitTracker: the edit form's data
    selectedHabit,        \* HabitTracker: the habit handed to HabitDetailView, or None
    validationErrors,     \* HabitTracker: field-keyed messages of the create form
    editValidationErrors, \* HabitTracker: field-keyed messages of the edit form
    toast,                \* the last notice shown with toast.error / toast.success
    now,                  \* the wall clock: hours since 2024-01-01T00:00Z
    tz,                   \* the browser's offset from UTC, in hours
    snapshot,             \* aggregator input: the habits read by the aggregator
    tasksMatrix,          \* aggregator input: the task matrix read by the aggregator
    dateRange,            \* aggregator input: the requested range, or None
    data,                 \* local-storage aggregator: useState<AnalyticsData | null>
    remote,               \* remote-store aggregator: the query's result, or None
    phase,                \* TaskList: which version runs and how far its mount is
    tasks,                \* TaskList (matrix): useState<TasksByQuadrant>
    formData,             \* TaskList (matrix): the data of the add and edit dialogs
    isAddDialogOpen,      \* TaskList (matrix): the add dialog is open
    isEditDialogOpen,     \* TaskList (matrix): the edit dialog is open
    editingTask,          \* TaskList (matrix): the task being edited and its quadrant, or None
    draggedTask,          \* TaskList (matrix): the task picked up and its quadrant, or None
    dragOverQuadrant,     \* TaskList (matrix): the quadrant dragged over, or Null
    flatTasks,            \* TaskList (flat): useState<Task[]>
    newTask,              \* TaskList (flat): the title being typed
    storedMatrix,         \* localStorage "tasks-matrix", parsed, or None
    storedTasks,          \* localStorage "tasks", parsed, or None
    storedHabits,         \* localStorage "habits": absent, a JSON text or another text
    view,                 \* this tab: which tab content is shown and how far its mount is
    otherHabits,          \* a second tab's HabitTracker: its habits, or None when closed
    storageEvent,         \* a storage event is queued for this tab's document
    loading               \* local-storage aggregator: useState(true)

storeVars == <<habits, showForm, newHabit, editingId, editForm, selectedHabit,
               validationErrors, editValidationErrors, toast>>
clockVars == <<now, tz>>
aggVars   == <<snapshot, tasksMatrix, dateRange, data, remote>>
taskVars  == <<phase, tasks, formData, isAddDialogOpen, isEditDialogOpen,
               editingTask, draggedTask, dragOverQuadrant, flatTasks, newTask,
               storedMatrix, storedTasks>>
tabVars   == <<view, otherHabits, storageEvent>>
persistVars == <<storedHabits, tabVars, loading>>
vars      == <<storeVars, clockVars, aggVars, taskVars, persistVars>>

Null      == "null"         \* null, where the other values are strings
Undefined == "undefined"    \* undefined, where the other values are strings
None      == <<>>           \* null or undefined, where the other values are not
Some(x)   == <<x>>          \* a present value of such a place

\* What localStorage.getItem("habits") can give: null when the key is absent,
\* the text JSON.stringify wrote, or a text JSON.parse does not accept.
\* JSON.stringify leaves out the keys whose value is undefined and JSON.parse
\* returns objects without them; such a key reads as undefined before and
\* after, which is how the records of this model hold it.
Absent        == [kind |-> "absent", value |-> <<>>]
Malformed     == [kind |-> "malformed", value |-> <<>>]
Stringify(hs) == [kind |-> "json", value |-> hs]

\* a variant of setItem that adds hs to the habits of the entry it finds
setItemMerged(previous, hs) ==
    Stringify(previous.value
              \o SelectSeq(hs, LAMBDA h :
                    \A i \in DOMAIN previous.value : previous.value[i].id # h.id))

\* a variant of setItem that leaves an entry it finds as it is
setItemSkipped(previous, hs) ==
    IF previous.kind = "absent" THEN Stringify(hs) ELSE previous

\* localStorage.setItem("habits", JSON.stringify(hs)), the save effect of
\* HabitTracker, over the entry previous: the text of hs replaces it
setItem(previous, hs) == Stringify(hs)

-----------------------------------------------------------------------------
(* Bounds of the model.                                                    *)

MaxHabits == 2      \* habits the store holds at most
MaxTicks  == 2      \* half-days the clock advances at most

TzOffsets == {-8, 0, 13}   \* UTC-8, UTC, UTC+13

\* the instant the application is opened: 2024-01-02T00:00Z
StartOfSession == 1 * 24

-----------------------------------------------------------------------------
(* Dates.                                                                  *)

\* floor(t / 24): the calendar day an hour count falls in
DayOfHours(t) == IF t >= 0 THEN t \div 24 ELSE -((23 - t) \div 24)

\* new Date().toISOString().split("T")[0]: the UTC calendar date
ISODate(t) == DayOfHours(t)

\* date-fns format(date, 'yyyy-MM-dd'): the calendar date in local time
FormatDate(t, offset) == DayOfHours(t + offset)

\* new Date("yyyy-MM-dd"): a date-only string is parsed as UTC midnight
ParseDate(d) == d * 24

\* the truthiness of map[key]: an absent key reads undefined
Truthy(map, key) == key \in DOMAIN map /\ map[key] = TRUE

-----------------------------------------------------------------------------
(* The habit form and its validation (zod schemas).                        *)

NameMaxLen    == 50     \* habitBaseSchema: name .max(50)
LeavesMax     == 31     \* habitBaseSchema: leavesAllowedPerMonth .max(31)
DaysPerWeekMax == 7     \* customFrequencySchema: daysPerWeek .max(7)
MinutesMax    == 1440   \* customFrequencySchema: minutesPerDay .max(1440)
CountMax      == 100    \* customFrequencySchema: countPerDay .max(100)

\* the initial value of newHabit and editForm, and the value addHabit resets to
DefaultForm ==
    [name |-> <<>>, frequency |-> "daily", customType |-> "time-based",
     minutesPerDay |-> 30, countPerDay |-> 1, daysPerWeek |-> 5,
     leavesAllowedPerMonth |-> 0, status |-> "active"]

NoErrors == <<>>      \* the empty object {}

RECURSIVE TrimStart(_)
\* String.prototype.trimStart on a sequence of characters
TrimStart(s) == IF s # <<>> /\ Head(s) = " " THEN TrimStart(Tail(s)) ELSE s

RECURSIVE TrimEnd(_)
\* String.prototype.trimEnd on a sequence of characters
TrimEnd(s) ==
    IF s # <<>> /\ s[Len(s)] = " " THEN TrimEnd(SubSeq(s, 1, Len(s) - 1)) ELSE s

\* z.string().trim()
Trim(s) == TrimEnd(TrimStart(s))

\* one zod issue: the path of the field and the message
Issue(path, message) == [path |-> path, message |-> message]

\* the issues of .int().min(lo, minMsg).max(hi, maxMsg) on an integer v
RangeIssues(path, v, lo, minMsg, hi, maxMsg) ==
    (IF v < lo THEN <<Issue(path, minMsg)>> ELSE <<>>)
    \o (IF v > hi THEN <<Issue(path, maxMsg)>> ELSE <<>>)

\* a variant of habitBaseSchema that measures the name without trimming it
habitBaseSchemaUntrimmed(f) ==
    (IF Len(f.name) < 1
        THEN <<Issue("name", "Habit name is required")>> ELSE <<>>)
    \o (IF Len(f.name) > NameMaxLen
        THEN <<Issue("name", "Habit name must be less than 50 characters")>>
        ELSE <<>>)
    \o RangeIssues("leavesAllowedPerMonth", f.leavesAllowedPerMonth,
                   0, "Cannot be negative", LeavesMax, "Cannot exceed 31 days")

\* habitBaseSchema: name, frequency, leavesAllowedPerMonth, status
habitBaseSchema(f) ==
    (IF Len(Trim(f.name)) < 1
        THEN <<Issue("name", "Habit name is required")>> ELSE <<>>)
    \o (IF Len(Trim(f.name)) > NameMaxLen
        THEN <<Issue("name", "Habit name must be less than 50 characters")>>
        ELSE <<>>)
    \o RangeIssues("leavesAllowedPerMonth", f.leavesAllowedPerMonth,
                   0, "Cannot be negative", LeavesMax, "Cannot exceed 31 days")

\* customFrequencySchema, applied to a form: a form's numeric fields always
\* hold a number (an emptied input is stored as 0), so .optional() never
\* applies and both minutesPerDay and countPerDay are checked, whichever
\* customType is chosen; the refinement then requires the chosen type's field
customFrequencySchema(f) ==
    RangeIssues("daysPerWeek", f.daysPerWeek,
                1, "Must be at least 1 day", DaysPerWeekMax, "Cannot exceed 7 days")
    \o RangeIssues("minutesPerDay", f.minutesPerDay,
                   1, "Must be at least 1 minute",
                   MinutesMax, "Cannot exceed 1440 minutes (24 hours)")
    \o RangeIssues("countPerDay", f.countPerDay,
                   1, "Must be at least 1", CountMax, "Cannot exceed 100")
    \o (IF \/ f.customType = "time-based" /\ ~(f.minutesPerDay > 0)
           \/ f.customType = "count-based" /\ ~(f.countPerDay > 0)
        THEN <<Issue("customType", "Required field for selected custom type")>>
        ELSE <<>>)

\* habitSchema: the base schema, then (superRefine) the custom schema's issues
\* when frequency is custom
habitSchema(f) ==
    habitBaseSchema(f)
    \o (IF f.frequency = "custom" THEN customFrequencySchema(f) ELSE <<>>)

\* errors[path] = message for every issue in order: a later issue of the same
\* path overwrites an earlier one
ErrorMap(issues) ==
    [p \in {issues[i].path : i \in DOMAIN issues} |->
        LET last == CHOOSE i \in DOMAIN issues :
                        /\ issues[i].path = p
                        /\ \A j \in DOMAIN issues : issues[j].path = p => j <= i
        IN  issues[last].message]

\* validateHabitForm: the boolean it returns and the map it hands to setErrors
validateHabitForm(form) ==
    LET issues == habitSchema(form)
    IN  [ok |-> issues = <<>>,
         errors |-> IF issues = <<>> THEN NoErrors ELSE ErrorMap(issues)]

-----------------------------------------------------------------------------
(* The habit store: HabitTracker's handlers.                               *)

\* Date.now().toString()
NewId(t) == ToString(t)

\* the record addHabit builds from a valid form at instant t: the keys a
\* non-custom habit does not get read as undefined
NewHabitRecord(f, t) ==
    [id |-> NewId(t), name |-> f.name, frequency |-> f.frequency,
     leavesAllowedPerMonth |-> f.leavesAllowedPerMonth, status |-> f.status,
     completions |-> <<>>, createdAt |-> t,
     customType |-> IF f.frequency = "custom" THEN f.customType ELSE Undefined,
     daysPerWeek |-> IF f.frequency = "custom" THEN Some(f.daysPerWeek) ELSE None,
     minutesPerDay |->
        IF f.frequency = "custom" /\ f.customType = "time-based"
        THEN Some(f.minutesPerDay) ELSE None,
     countPerDay |->
        IF f.frequency = "custom" /\ f.customType # "time-based"
        THEN Some(f.countPerDay) ELSE None]

\* a variant of UpdatedHabit that leaves the custom fields of a habit as they
\* are when the new frequency is not custom
UpdatedHabitKeepsCustom(habit, f) ==
    [habit EXCEPT
        !.name = f.name, !.frequency = f.frequency,
        !.leavesAllowedPerMonth = f.leavesAllowedPerMonth, !.status = f.status,
        !.customType = IF f.frequency = "custom" THEN f.customType ELSE @,
        !.daysPerWeek = IF f.frequency = "custom" THEN Some(f.daysPerWeek) ELSE @,
        !.minutesPerDay =
            IF f.frequency # "custom" THEN @
            ELSE IF f.customType = "time-based" THEN Some(f.minutesPerDay) ELSE None,
        !.countPerDay =
            IF f.frequency # "custom" THEN @
            ELSE IF f.customType # "time-based" THEN Some(f.countPerDay) ELSE None]

\* { ...habit, ...fullUpdate } of updateHabit
UpdatedHabit(habit, f) ==
    [habit EXCEPT
        !.name = f.name, !.frequency = f.frequency,
        !.leavesAllowedPerMonth = f.leavesAllowedPerMonth, !.status = f.status,
        !.customType = IF f.frequency = "custom" THEN f.customType ELSE Undefined,
        !.daysPerWeek = IF f.frequency = "custom" THEN Some(f.daysPerWeek) ELSE None,
        !.minutesPerDay =
            IF f.frequency = "custom" /\ f.customType = "time-based"
            THEN Some(f.minutesPerDay) ELSE None,
        !.countPerDay =
            IF f.frequency = "custom" /\ f.customType # "time-based"
            THEN Some(f.countPerDay) ELSE None]

\* optional || fallback
OrElse(opt, fallback) == IF opt = None \/ opt = Some(0) THEN fallback ELSE opt[1]

\* the form startEditing fills from a habit
EditFormOf(habit) ==
    [name |-> habit.name, frequency |-> habit.frequency,
     customType |-> IF habit.customType = Undefined THEN "time-based"
                    ELSE habit.customType,
     minutesPerDay |-> OrElse(habit.minutesPerDay, 30),
     countPerDay |-> OrElse(habit.countPerDay, 1),
     daysPerWeek |-> OrElse(habit.daysPerWeek, 5),
     leavesAllowedPerMonth |-> habit.leavesAllowedPerMonth,
     status |-> habit.status]

\* array.map(f) and array.filter(p) on a sequence
RECURSIVE FilterOut(_, _)
FilterOut(seq, id) ==
    IF seq = <<>> THEN <<>>
    ELSE (IF Head(seq).id # id THEN <<Head(seq)>> ELSE <<>>)
         \o FilterOut(Tail(seq), id)

\* a variant of Flip that marks the day completed instead of negating it
FlipSetsTrue(completions, today) ==
    [d \in DOMAIN completions \cup {today} |->
        IF d = today THEN TRUE ELSE completions[d]]

\* newCompletions = {...completions}; newCompletions[today] = !newCompletions[today]
Flip(completions, today) ==
    [d \in DOMAIN completions \cup {today} |->
        IF d = today THEN ~Truthy(completions, today) ELSE completions[d]]

\* the array toggleHabit hands to setHabits
Toggled(hs, id, today) ==
    [i \in DOMAIN hs |->
        IF hs[i].id = id
        THEN [hs[i] EXCEPT !.completions = Flip(hs[i].completions, today)]
        ELSE hs[i]]

\* the detail dialog (a modal Dialog) is closed: the list behind it is usable
DialogClosed == selectedHabit = None

\* the card of habits[i] is rendered as its edit form
Editing(i) == editingId = habits[i].id

\* the "Add Habit" button: setShowForm(!showForm)
ToggleShowForm ==
    /\ DialogClosed
    /\ showForm' = ~showForm
    /\ UNCHANGED <<habits, newHabit, editingId, editForm, selectedHabit,
                   validationErrors, editValidationErrors, toast>>
    /\ UNCHANGED <<clockVars, aggVars, taskVars, persistVars>>

\* an onChange handler of the create form: setNewHabit({...newHabit, [field]: value})
SetNewHabit(field, value) ==
    /\ DialogClosed
    /\ showForm
    /\ newHabit' = [newHabit EXCEPT ![field] = value]
    /\ UNCHANGED <<habits, showForm, editingId, editForm, selectedHabit,
                   validationErrors, editValidationErrors, toast>>
    /\ UNCHANGED <<clockVars, aggVars, taskVars, persistVars>>

\* addHabit, run when the create form holds form
addHabitOn(form) ==
    /\ DialogClosed
    /\ showForm
    /\ LET v == validateHabitForm(form)
       IN  IF ~v.ok
           THEN /\ validationErrors' = v.errors
                /\ toast' = "error: Please fix the validation errors before submitting"
                /\ newHabit' = form
                /\ UNCHANGED <<habits, showForm, storedHabits>>
           ELSE /\ Len(habits) < MaxHabits
                /\ habits' = Append(habits, NewHabitRecord(form, now))
                /\ storedHabits' = setItem(storedHabits, habits')
                /\ newHabit' = DefaultForm
                /\ validationErrors' = NoErrors
                /\ showForm' = FALSE
                /\ toast' = "success: Habit added successfully!"
    /\ UNCHANGED <<editingId, editForm, selectedHabit, editValidationErrors>>
    /\ UNCHANGED <<clockVars, aggVars, taskVars, tabVars, loading>>

\* addHabit: the "Add" button of the create form
addHabit == addHabitOn(newHabit)

\* startEditing(habits[i]): the pencil button of a card that is not being edited
startEditing(i) ==
    /\ DialogClosed
    /\ i \in DOMAIN habits
    /\ ~Editing(i)
    /\ editingId' = habits[i].id
    /\ editForm' = EditFormOf(habits[i])
    /\ UNCHANGED <<habits, showForm, newHabit, selectedHabit,
                   validationErrors, editValidationErrors, toast>>
    /\ UNCHANGED <<clockVars, aggVars, taskVars, persistVars>>

\* an onChange handler of the edit form: setEditForm({...editForm, [field]: value})
SetEditForm(field, value) ==
    /\ DialogClosed
    /\ \E i \in DOMAIN habits : Editing(i)
    /\ editForm' = [editForm EXCEPT ![field] = value]
    /\ UNCHANGED <<habits, showForm, newHabit, editingId, selectedHabit,
                   validationErrors, editValidationErrors, toast>>
    /\ UNCHANGED <<clockVars, aggVars, taskVars, persistVars>>

\* updateHabit, run when the edit form holds form
updateHabitOn(form) ==
    /\ DialogClosed
    /\ \E i \in DOMAIN habits : Editing(i)
    /\ editForm' = form
    /\ IF editingId = Null
       THEN UNCHANGED <<habits, editingId, editValidationErrors, toast,
                        storedHabits>>
       ELSE LET v == validateHabitForm(form)
            IN  IF ~v.ok
                THEN /\ editValidationErrors' = v.errors
                     /\ toast' = "error: Please fix the validation errors before submitting"
                     /\ UNCHANGED <<habits, editingId, storedHabits>>
                ELSE /\ habits' = [i \in DOMAIN habits |->
                                     IF habits[i].id = editingId
                                     THEN UpdatedHabit(habits[i], form)
                                     ELSE habits[i]]
                     /\ storedHabits' = setItem(storedHabits, habits')
                     /\ editingId' = Null
                     /\ editValidationErrors' = NoErrors
                     /\ toast' = "success: Habit updated successfully!"
    /\ UNCHANGED <<showForm, newHabit, selectedHabit, validationErrors>>
    /\ UNCHANGED <<clockVars, aggVars, taskVars, tabVars, loading>>

\* updateHabit: the "Save" button of the edit form
updateHabit == updateHabitOn(editForm)

\* the "Cancel" button of the edit form: setEditingId(null)
CancelEditing ==
    /\ DialogClosed
    /\ \E i \in DOMAIN habits : Editing(i)
    /\ editingId' = Null
    /\ UNCHANGED <<habits, showForm, newHabit, editForm, selectedHabit,
                   validationErrors, editValidationErrors, toast>>
    /\ UNCHANGED <<clockVars, aggVars, taskVars, persistVars>>

\* deleteHabit(habits[i].id): the delete button of the edit form
deleteHabit(i) ==
    /\ DialogClosed
    /\ i \in DOMAIN habits
    /\ Editing(i)
    /\ habits' = FilterOut(habits, habits[i].id)
    /\ storedHabits' = setItem(storedHabits, habits')
    /\ editingId' = Null
    /\ toast' = "success: Habit deleted successfully!"
    /\ UNCHANGED <<showForm, newHabit, editForm, selectedHabit,
                   validationErrors, editValidationErrors>>
    /\ UNCHANGED <<clockVars, aggVars, taskVars, tabVars, loading>>

\* toggleHabit(id): the key is today's date taken from the UTC timestamp
toggleHabit(id) ==
    /\ habits' = Toggled(habits, id, ISODate(now))
    /\ storedHabits' = setItem(storedHabits, habits')
    /\ UNCHANGED <<showForm, newHabit, editingId, editForm, selectedHabit,
                   validationErrors, editValidationErrors, toast>>
    /\ UNCHANGED <<clockVars, aggVars, taskVars, tabVars, loading>>

\* the check button of card i: toggleHabit(habit.id)
CheckClick(i) ==
    /\ DialogClosed
    /\ i \in DOMAIN habits
    /\ ~Editing(i)
    /\ toggleHabit(habits[i].id)

\* a click on card i: setSelectedHabit(habit) opens the detail dialog
SelectHabit(i) ==
    /\ DialogClosed
    /\ i \in DOMAIN habits
    /\ ~Editing(i)
    /\ selectedHabit' = Some(habits[i])
    /\ UNCHANGED <<habits, showForm, newHabit, editingId, editForm,
                   validationErrors, editValidationErrors, toast>>
    /\ UNCHANGED <<clockVars, aggVars, taskVars, persistVars>>

\* HabitDetailView's Calendar onDayClick(date), date being local day `day`:
\* dateStr = format(date, 'yyyy-MM-dd'); onToggleCompletion(habit.id, dateStr).
\* onToggleCompletion is toggleHabit, which declares the one parameter id: the
\* second argument is dropped
onDayClick(day) ==
    /\ selectedHabit # None
    /\ LET dateStr == FormatDate(ParseDate(day) - tz, tz)
       IN  toggleHabit(selectedHabit[1].id)

\* onOpenChange(false): setSelectedHabit(null)
CloseDetail ==
    /\ selectedHabit # None
    /\ selectedHabit' = None
    /\ UNCHANGED <<habits, showForm, newHabit, editingId, editForm,
                   validationErrors, editValidationErrors, toast>>
    /\ UNCHANGED <<clockVars, aggVars, taskVars, persistVars>>

\* time passes: half a day
Tick ==
    /\ now + 12 <= StartOfSession + 12 * MaxTicks
    /\ now' = now + 12
    /\ UNCHANGED <<tz, storeVars, aggVars, taskVars, persistVars>>

-----------------------------------------------------------------------------
(***************************************************************************)
(* IEEE 754 binary64 arithmetic for Math.round((c / p) * 100).  A positive *)
(* binary64 number is [hi, mid, lo, e]: its 53 significant bits are the    *)
(* number hi * 2^40 + mid * 2^20 + lo (hi has 13 bits, the first of them   *)
(* set; mid and lo have 20 bits) and its value is that number times 2^e.   *)
(* The digits are kept apart because the numbers of the model checker have *)
(* 32 bits; p < 2048 keeps every intermediate value below 2^31.            *)
(***************************************************************************)

Digit == 2^20     \* the base of the digits mid and lo
HiTop == 2^13     \* hi < HiTop

\* the 53 bits plus one, renormalised when they overflow to 2^53
DoubleIncrement(x) ==
    IF x.lo + 1 < Digit THEN [x EXCEPT !.lo = x.lo + 1]
    ELSE IF x.mid + 1 < Digit THEN [x EXCEPT !.lo = 0, !.mid = x.mid + 1]
    ELSE IF x.hi + 1 < HiTop THEN [x EXCEPT !.lo = 0, !.mid = 0, !.hi = x.hi + 1]
    ELSE [hi |-> HiTop \div 2, mid |-> 0, lo |-> 0, e |-> x.e + 1]

\* how many times c (0 < c < p) is doubled until it reaches p
RECURSIVE LeadingShift(_, _)
LeadingShift(c, p) == IF 2 * c >= p THEN 1 ELSE 1 + LeadingShift(2 * c, p)

\* the binary64 quotient c / p of integers 0 < c < p < 2048: the first 53
\* significant bits of the quotient by long division (13, 20 and 20 bits at
\* a time), rounded to nearest by the remainder, a tie to the even neighbour
DoubleDivide(c, p) ==
    LET k  == LeadingShift(c, p)
        r0 == c * 2^(k - 1)
        hi == (r0 * HiTop) \div p
        r1 == (r0 * HiTop) % p
        md == (r1 * Digit) \div p
        r2 == (r1 * Digit) % p
        lo == (r2 * Digit) \div p
        r3 == (r2 * Digit) % p
        x  == [hi |-> hi, mid |-> md, lo |-> lo, e |-> -k - 52]
    IN  IF 2 * r3 > p \/ (2 * r3 = p /\ lo % 2 = 1)
        THEN DoubleIncrement(x) ELSE x

\* the binary64 product x * 100: the exact product has 59 or 60 bits; the
\* lowest 6 or 7 are dropped and round the rest to nearest, a tie to even
DoubleTimes100(x) ==
    LET p3   == x.lo * 100
        p2   == (x.mid * 100) + (p3 \div Digit)
        p1   == (x.hi * 100) + (p2 \div Digit)
        l3   == p3 % Digit
        l2   == p2 % Digit
        s    == IF p1 < 2^19 THEN 6 ELSE 7
        drop == l3 % 2^s
        kept == [hi  |-> p1 \div 2^s,
                 mid |-> (l2 \div 2^s) + ((p1 % 2^s) * 2^(20 - s)),
                 lo  |-> (l3 \div 2^s) + ((l2 % 2^s) * 2^(20 - s)),
                 e   |-> x.e + s]
    IN  IF drop > 2^(s - 1) \/ (drop = 2^(s - 1) /\ kept.lo % 2 = 1)
        THEN DoubleIncrement(kept) ELSE kept

\* Math.round of a binary64 x with 0 < x < 128: the integer part, plus one
\* when the first fractional bit is set (a tie rounds up)
MathRound(x) ==
    LET f == -x.e - 40     \* fractional bits within hi
    IN  IF f > 13 THEN 0
        ELSE (x.hi \div 2^f) + ((x.hi \div 2^(f - 1)) % 2)

\* Math.round((totalCompletions / totalPossible) * 100)
\* for integers 0 <= totalCompletions <= totalPossible, 0 < totalPossible < 2048
RoundedPercent(totalCompletions, totalPossible) ==
    IF totalCompletions = 0 THEN 0
    ELSE IF totalCompletions = totalPossible THEN 100
    ELSE MathRound(DoubleTimes100(DoubleDivide(totalCompletions, totalPossible)))

-----------------------------------------------------------------------------
(* The analytics aggregators: useAnalytics of src/unnamed/part_003 (local  *)
(* storage) and of src/src/components/DateRangePicker.tsx (remote store).  *)

ScanDays == 365     \* the streak loop: for (let i = 0; i < 365; i++)

\* the weekday of a calendar day, 0 = Monday (day 0 is a Monday)
Weekday(d) == d % 7

\* format(date, 'EEE') and format(date, 'EEEE') of a calendar day
DayNames == <<"Mon", "Tue", "Wed", "Thu", "Fri", "Sat", "Sun">>
LongDayNames == <<"Monday", "Tuesday", "Wednesday", "Thursday", "Friday",
                  "Saturday", "Sunday">>
FormatEEE(d) == DayNames[Weekday(d) + 1]
FormatEEEE(d) == LongDayNames[Weekday(d) + 1]

\* startOfWeek(today, { weekStartsOn: 1 }) as a calendar day
StartOfWeek(today) == today - Weekday(today)

\* Math.max
Max(a, b) == IF a >= b THEN a ELSE b

\* eachDayOfInterval({ start, end }) as the sequence of its calendar days
EachDay(start, end) == [i \in 1..(end - start + 1) |-> start + i - 1]

\* the days the local aggregator covers: startOfDay(from) to endOfDay(to), or
\* the one day of from when to is missing, or the Monday-to-Sunday week of
\* today when there is no range
daysInterval(range, t, offset) ==
    LET today == FormatDate(t, offset)
        start == IF range # None THEN FormatDate(range[1].from, offset)
                 ELSE StartOfWeek(today)
        end   == IF range # None /\ range[1].to # None
                 THEN FormatDate(range[1].to[1], offset)
                 ELSE IF range # None THEN FormatDate(range[1].from, offset)
                 ELSE StartOfWeek(today) + 6
    IN  EachDay(start, end)

\* the (day, habit) cells of the range whose completions[dateStr] is truthy
CompletedCells(hs, days) ==
    {c \in (1..Len(days)) \X (1..Len(hs)) : Truthy(hs[c[2]].completions, days[c[1]])}

\* totalPossibleCompletions > 0 ? Math.round((total / possible) * 100) : 0
completionRateOf(totalCompletions, totalPossibleCompletions) ==
    IF totalPossibleCompletions > 0
    THEN RoundedPercent(totalCompletions, totalPossibleCompletions)
    ELSE 0

\* habits.some(h => h.completions[dateStr])
anyCompleted(hs, d) == \E j \in 1..Len(hs) : Truthy(hs[j].completions, d)

\* a variant of StreakStep that counts every completed day into currentStreak
StreakStepCountsAll(hs, today, s) ==
    LET done == anyCompleted(hs, today - s.i)
    IN  [i             |-> s.i + 1,
         tempStreak    |-> IF done THEN s.tempStreak + 1 ELSE 0,
         bestStreak    |-> IF done THEN s.bestStreak
                           ELSE Max(s.bestStreak, s.tempStreak),
         currentStreak |-> IF done THEN s.currentStreak + 1 ELSE s.currentStreak]

\* one iteration of the streak loop, on the day i days before today, and i++
StreakStep(hs, today, s) ==
    LET done == anyCompleted(hs, today - s.i)
    IN  [i             |-> s.i + 1,
         tempStreak    |-> IF done THEN s.tempStreak + 1 ELSE 0,
         bestStreak    |-> IF done THEN s.bestStreak
                           ELSE Max(s.bestStreak, s.tempStreak),
         currentStreak |-> IF s.i = s.currentStreak /\ done
                           THEN s.currentStreak + 1 ELSE s.currentStreak]

\* the streak loop from the state s on, for n iterations at most and while
\* i < 365: the first half of the iterations, then the rest of them
RECURSIVE StreakLoop(_, _, _, _)
StreakLoop(hs, today, s, n) ==
    IF n = 0 \/ ~(s.i < ScanDays) THEN s
    ELSE IF n = 1 THEN StreakStep(hs, today, s)
    ELSE StreakLoop(hs, today, StreakLoop(hs, today, s, n \div 2), n - n \div 2)

\* a variant of Streaks without the statement after the loop
StreaksWithoutFinalMax(hs, today) ==
    LET s == StreakLoop(hs, today,
                        [i |-> 0, currentStreak |-> 0, bestStreak |-> 0,
                         tempStreak |-> 0],
                        ScanDays)
    IN  [currentStreak |-> s.currentStreak,
         bestStreak    |-> s.bestStreak]

\* the streak loop and the statement after it
Streaks(hs, today) ==
    LET s == StreakLoop(hs, today,
                        [i |-> 0, currentStreak |-> 0, bestStreak |-> 0,
                         tempStreak |-> 0],
                        ScanDays)
    IN  [currentStreak |-> s.currentStreak,
         bestStreak    |-> Max(s.bestStreak, s.tempStreak)]

\* dayCounts: for each name of DayNames the number of truthy keys, over all
\* habits, that format(new Date(dateStr), 'EEE') gives this name; the key is
\* parsed as midnight UTC and formatted in local time
dayCounts(hs, offset) ==
    [k \in 1..7 |->
        Cardinality({c \in UNION {{<<j, d>> : d \in DOMAIN hs[j].completions} :
                                  j \in 1..Len(hs)} :
                        /\ hs[c[1]].completions[c[2]] = TRUE
                        /\ FormatEEE(FormatDate(ParseDate(c[2]), offset)) = DayNames[k]})]

\* Object.entries(dayCounts).reduce((a, b) => a[1] > b[1] ? a : b): the entry
\* left after the entries k, k + 1, ..., 7 are folded into a
RECURSIVE ReduceEntries(_, _, _)
ReduceEntries(counts, a, k) ==
    IF k > 7 THEN a
    ELSE ReduceEntries(counts, IF counts[a] > counts[k] THEN a ELSE k, k + 1)

\* weeklyProgress of the local aggregator
LocalWeeklyProgress(hs, days) ==
    [i \in 1..Len(days) |->
        [day |-> FormatEEE(days[i]), date |-> days[i],
         completed |-> Cardinality({j \in 1..Len(hs) :
                                      Truthy(hs[j].completions, days[i])}),
         total |-> Len(hs)]]

\* dailyDetails: for each day of the range, one entry per habit
DailyDetails(hs, days) ==
    [d \in {days[i] : i \in 1..Len(days)} |->
        [j \in 1..Len(hs) |->
            [name |-> hs[j].name, completed |-> Truthy(hs[j].completions, d)]]]

\* the quadrants of the task matrix, in the order the aggregator lists them
Quadrants == <<"urgent-important", "not-urgent-important",
               "urgent-not-important", "not-urgent-not-important">>
QuadrantNames == <<"Do First", "Schedule", "Delegate", "Eliminate">>
QuadrantColors == <<"#ef4444", "#3b82f6", "#eab308", "#6b7280">>

\* the task matrix the aggregator uses when the storage has none
EmptyTaskMatrix == [q \in {Quadrants[k] : k \in 1..4} |-> <<>>]

\* entry k of taskDistribution before the filter
QuadrantEntry(tm, k) ==
    [name |-> QuadrantNames[k], value |-> Len(tm[Quadrants[k]]),
     color |-> QuadrantColors[k]]

\* a variant of NonEmptyQuadrants without the filter
RECURSIVE EveryQuadrant(_, _)
EveryQuadrant(tm, k) ==
    IF k > 4 THEN <<>>
    ELSE <<QuadrantEntry(tm, k)>> \o EveryQuadrant(tm, k + 1)

\* array.filter(d => d.value > 0) on the entries k, ..., 4 of taskDistribution
RECURSIVE NonEmptyQuadrants(_, _)
NonEmptyQuadrants(tm, k) ==
    IF k > 4 THEN <<>>
    ELSE (IF QuadrantEntry(tm, k).value > 0
          THEN <<QuadrantEntry(tm, k)>>
          ELSE <<>>) \o NonEmptyQuadrants(tm, k + 1)

\* allTasks.filter(t => t.completed).length
TasksCompleted(tm) ==
    Cardinality({c \in UNION {{<<k, i>> : i \in 1..Len(tm[Quadrants[k]])} :
                              k \in 1..4} :
                    tm[Quadrants[c[1]]][c[2]].completed})

\* the record calculateAnalytics hands to setData
LocalAnalytics(hs, tm, range, t, offset) ==
    LET today   == FormatDate(t, offset)
        days    == daysInterval(range, t, offset)
        streaks == Streaks(hs, today)
    IN  [completionRate |->
            completionRateOf(Cardinality(CompletedCells(hs, days)),
                             Len(days) * Len(hs)),
         totalHabits |-> Len(hs),
         totalTasksCompleted |-> TasksCompleted(tm),
         currentStreak |-> streaks.currentStreak,
         bestStreak |-> streaks.bestStreak,
         mostProductiveDay |-> DayNames[ReduceEntries(dayCounts(hs, offset), 1, 2)],
         weeklyProgress |-> LocalWeeklyProgress(hs, days),
         taskDistribution |-> NonEmptyQuadrants(tm, 1),
         dailyDetails |-> DailyDetails(hs, days)]

\* the rows of the remote habits table that hold a snapshot: completion_dates
\* is the array of the date keys of completions whose value is true
RemoteRows(hs) ==
    [j \in 1..Len(hs) |->
        [name |-> hs[j].name,
         completion_dates |-> {d \in DOMAIN hs[j].completions :
                                  hs[j].completions[d] = TRUE}]]

\* the days the remote aggregator covers: startOfDay(from) to endOfDay(to),
\* each of them the present instant when the range does not give it
dateArray(range, t, offset) ==
    LET from == IF range # None THEN range[1].from ELSE t
        to   == IF range # None /\ range[1].to # None THEN range[1].to[1] ELSE t
    IN  EachDay(FormatDate(from, offset), FormatDate(to, offset))

\* dailyCompletions[dateStr]: the rows whose completion_dates include the day
dailyCompletions(rows, d) ==
    Cardinality({j \in 1..Len(rows) : d \in rows[j].completion_dates})

\* weeklyProgress of the remote aggregator
RemoteWeeklyProgress(rows, days) ==
    [i \in 1..Len(days) |->
        [day |-> FormatEEE(days[i]), completed |-> dailyCompletions(rows, days[i]),
         date |-> days[i]]]

\* the sum of the dailyCompletions of the days i .. Len(days) of the array
\* that fall on the weekday w
RECURSIVE WeekdayCompleted(_, _, _, _)
WeekdayCompleted(rows, days, w, i) ==
    IF i > Len(days) THEN 0
    ELSE (IF Weekday(days[i]) = w THEN dailyCompletions(rows, days[i]) ELSE 0)
         + WeekdayCompleted(rows, days, w, i + 1)

\* dayOfWeekCounts[dayName] for the weekday w: completed and total
dayOfWeekCounts(rows, days, w) ==
    [completed |-> WeekdayCompleted(rows, days, w, 1),
     total     |-> Cardinality({i \in 1..Len(days) : Weekday(days[i]) = w})
                   * Len(rows)]

\* Object.entries(dayOfWeekCounts).forEach(...): the entries come in the order
\* their weekdays first occur in the array, entry k being the weekday of
\* days[k]; best is the day and the rate (completed over total) kept so far.
\* rate > highestRate is decided on the fractions: the quotients of integers
\* below 2^26 differ as binary64 numbers exactly when the fractions differ
RECURSIVE MostProductiveFrom(_, _, _, _)
MostProductiveFrom(rows, days, best, k) ==
    IF k > Len(days) \/ k > 7 THEN best.day
    ELSE LET counts == dayOfWeekCounts(rows, days, Weekday(days[k]))
             higher == /\ counts.total > 0
                       /\ counts.completed * best.total > best.completed * counts.total
         IN  MostProductiveFrom(rows, days,
                IF higher
                THEN [day |-> FormatEEEE(days[k]), completed |-> counts.completed,
                      total |-> counts.total]
                ELSE best,
                k + 1)

\* the best-streak loop of the remote aggregator over days i .. Len(days)
RECURSIVE RemoteBestStreak(_, _, _, _, _)
RemoteBestStreak(rows, days, bestStreak, currentStreak, i) ==
    IF i > Len(days) THEN bestStreak
    ELSE IF dailyCompletions(rows, days[i]) = Len(rows) /\ Len(rows) > 0
         THEN RemoteBestStreak(rows, days, Max(bestStreak, currentStreak + 1),
                               currentStreak + 1, i + 1)
         ELSE RemoteBestStreak(rows, days, bestStreak, 0, i + 1)

\* the sum of dailyCompletions over days i .. Len(days)
RECURSIVE TotalCompleted(_, _, _)
TotalCompleted(rows, days, i) ==
    IF i > Len(days) THEN 0
    ELSE dailyCompletions(rows, days[i]) + TotalCompleted(rows, days, i + 1)

\* the record the query function of the remote aggregator returns
RemoteAnalytics(rows, range, t, offset) ==
    IF Len(rows) = 0
    THEN [bestStreak |-> 0, completionRate |-> 0, mostProductiveDay |-> "N/A",
          weeklyProgress |-> <<>>, dailyDetails |-> None]
    ELSE LET days == dateArray(range, t, offset)
         IN  [bestStreak |-> RemoteBestStreak(rows, days, 0, 0, 1),
              completionRate |->
                 completionRateOf(TotalCompleted(rows, days, 1),
                                  Len(days) * Len(rows)),
              mostProductiveDay |->
                 MostProductiveFrom(rows, days,
                    [day |-> "N/A", completed |-> 0, total |-> 1], 1),
              weeklyProgress |-> RemoteWeeklyProgress(rows, days),
              dailyDetails |->
                 [d \in {days[i] : i \in 1..Len(days)} |->
                    [j \in 1..Len(rows) |->
                        [name |-> rows[j].name,
                         completed |-> d \in rows[j].completion_dates]]]]

-----------------------------------------------------------------------------
(* The task stores: TaskList of src/src/components/TaskList.tsx (the       *)
(* Eisenhower matrix) and the earlier TaskList of src/unnamed/part_002     *)
(* (a flat list).  A handler that changes the tasks ends with the save     *)
(* effect, which writes them to the storage.                               *)

MaxTasks == 2     \* tasks a task store holds at most

\* the quadrant new and migrated tasks go to
LastQuadrant == "not-urgent-not-important"

\* the initial value of formData, and resetForm
DefaultTaskForm == [text |-> <<>>, description |-> "", dueDate |-> ""]

\* value || undefined
OrUndefined(s) == IF s = "" THEN Undefined ELSE s

\* a variant of IsBlank that does not trim
IsBlankUntrimmed(s) == s = <<>>

\* !text.trim()
IsBlank(s) == Trim(s) = <<>>

\* the task addTask builds from the form at instant t
NewTask(f, t) ==
    [id |-> NewId(t), text |-> f.text,
     description |-> OrUndefined(f.description),
     dueDate |-> OrUndefined(f.dueDate),
     completed |-> FALSE, createdAt |-> t]

\* the task the flat addTask builds: it has no description and no due date
NewFlatTask(text, t) ==
    [id |-> NewId(t), text |-> text, description |-> Undefined,
     dueDate |-> Undefined, completed |-> FALSE, createdAt |-> t]

\* { ...editingTask.task, text, description, dueDate } of updateTask
UpdatedTask(task, f) ==
    [task EXCEPT !.text = f.text,
                 !.description = OrUndefined(f.description),
                 !.dueDate = OrUndefined(f.dueDate)]

\* list.map(t => t.id === updated.id ? updated : t)
ReplaceById(list, updated) ==
    [i \in DOMAIN list |-> IF list[i].id = updated.id THEN updated ELSE list[i]]

\* list.map(task => task.id === id ? { ...task, completed: !task.completed } : task)
ToggleById(list, id) ==
    [i \in DOMAIN list |->
        IF list[i].id = id THEN [list[i] EXCEPT !.completed = ~@] ELSE list[i]]

\* totalTasks: Object.values(tasks).reduce((acc, quadrant) => acc + quadrant.length, 0)
TotalTasks(tm) ==
    Len(tm[Quadrants[1]]) + Len(tm[Quadrants[2]]) + Len(tm[Quadrants[3]])
    + Len(tm[Quadrants[4]])

\* a variant of Migrated that puts the old tasks in the first quadrant
MigratedToFirst(oldTasks) == [EmptyTaskMatrix EXCEPT ![Quadrants[1]] = oldTasks]

\* the matrix the migration builds from the old array of tasks
Migrated(oldTasks) == [EmptyTaskMatrix EXCEPT ![LastQuadrant] = oldTasks]

\* the matrix TaskList is mounted, its effects have settled, no dialog is open
MatrixIdle == phase = "idle"
NoDialog == ~isAddDialogOpen /\ ~isEditDialogOpen

\* the state of the matrix TaskList at its first render
MatrixInitial ==
    /\ tasks = EmptyTaskMatrix
    /\ formData = DefaultTaskForm
    /\ isAddDialogOpen = FALSE
    /\ isEditDialogOpen = FALSE
    /\ editingTask = None
    /\ draggedTask = None
    /\ dragOverQuadrant = Null

\* the state of the flat TaskList at its first render
FlatInitial ==
    /\ flatTasks = <<>>
    /\ newTask = <<>>

\* what an action of the matrix TaskList leaves alone besides its own state
MatrixFrame ==
    UNCHANGED <<phase, flatTasks, newTask, storedTasks, habits, showForm,
                newHabit, editingId, editForm, selectedHabit, validationErrors,
                editValidationErrors, clockVars, aggVars, persistVars>>

\* what an action of the flat TaskList leaves alone besides its own state
FlatFrame ==
    UNCHANGED <<phase, tasks, formData, isAddDialogOpen, isEditDialogOpen,
                editingTask, draggedTask, dragOverQuadrant, storedMatrix,
                habits, showForm, newHabit, editingId, editForm, selectedHabit,
                validationErrors, editValidationErrors, clockVars, aggVars, persistVars>>

\* the matrix TaskList is rendered for the first time (the Tasks tab opens)
MountTaskList ==
    /\ phase = "unmounted"
    /\ phase' = "mounting"
    /\ tasks' = EmptyTaskMatrix
    /\ formData' = DefaultTaskForm
    /\ isAddDialogOpen' = FALSE
    /\ isEditDialogOpen' = FALSE
    /\ editingTask' = None
    /\ draggedTask' = None
    /\ dragOverQuadrant' = Null
    /\ UNCHANGED <<flatTasks, newTask, storedMatrix, storedTasks, storeVars,
                   clockVars, aggVars, persistVars>>

\* the effects after the first render. The load effect takes the stored matrix
\* or else migrates the stored array of the flat list; the save effect then
\* writes the tasks of the first render, the empty matrix. A render follows
\* when the load effect has set the tasks.
MountEffects ==
    /\ phase = "mounting"
    /\ IF storedMatrix # None
       THEN /\ tasks' = storedMatrix[1]
            /\ phase' = "rendering"
            /\ UNCHANGED <<storedTasks, toast>>
       ELSE IF storedTasks # None
       THEN /\ tasks' = Migrated(storedTasks[1])
            /\ storedTasks' = None
            /\ toast' = "success: Tasks migrated to Eisenhower Matrix!"
            /\ phase' = "rendering"
       ELSE /\ phase' = "idle"
            /\ UNCHANGED <<tasks, storedTasks, toast>>
    /\ storedMatrix' = Some(tasks)
    /\ UNCHANGED <<formData, isAddDialogOpen, isEditDialogOpen, editingTask,
                   draggedTask, dragOverQuadrant, flatTasks, newTask, habits,
                   showForm, newHabit, editingId, editForm, selectedHabit,
                   validationErrors, editValidationErrors, clockVars, aggVars, persistVars>>

\* the render with the loaded tasks and the save effect after it
SettleEffects ==
    /\ phase = "rendering"
    /\ phase' = "idle"
    /\ storedMatrix' = Some(tasks)
    /\ UNCHANGED <<tasks, formData, isAddDialogOpen, isEditDialogOpen,
                   editingTask, draggedTask, dragOverQuadrant, flatTasks,
                   newTask, storedTasks, storeVars, clockVars, aggVars, persistVars>>

\* the Tasks tab closes: the component and its state are discarded
UnmountTaskList ==
    /\ MatrixIdle
    /\ phase' = "unmounted"
    /\ tasks' = EmptyTaskMatrix
    /\ formData' = DefaultTaskForm
    /\ isAddDialogOpen' = FALSE
    /\ isEditDialogOpen' = FALSE
    /\ editingTask' = None
    /\ draggedTask' = None
    /\ dragOverQuadrant' = Null
    /\ UNCHANGED <<flatTasks, newTask, storedMatrix, storedTasks, storeVars,
                   clockVars, aggVars, persistVars>>

\* the Add Task buttons: setIsAddDialogOpen(true)
OpenAddDialog ==
    /\ MatrixIdle /\ NoDialog
    /\ isAddDialogOpen' = TRUE
    /\ UNCHANGED <<tasks, formData, isEditDialogOpen, editingTask, draggedTask,
                   dragOverQuadrant, storedMatrix, toast>>
    /\ MatrixFrame

\* onChange of the title input of the open dialog
SetTaskText(value) ==
    /\ MatrixIdle /\ ~NoDialog
    /\ formData' = [formData EXCEPT !.text = value]
    /\ UNCHANGED <<tasks, isAddDialogOpen, isEditDialogOpen, editingTask,
                   draggedTask, dragOverQuadrant, storedMatrix, toast>>
    /\ MatrixFrame

\* onOpenChange of a dialog (Escape, a click outside): the dialog closes
DismissDialog ==
    /\ MatrixIdle /\ ~NoDialog
    /\ isAddDialogOpen' = FALSE
    /\ isEditDialogOpen' = FALSE
    /\ UNCHANGED <<tasks, formData, editingTask, draggedTask, dragOverQuadrant,
                   storedMatrix, toast>>
    /\ MatrixFrame

\* the Cancel button of the add dialog
CancelAddDialog ==
    /\ MatrixIdle /\ isAddDialogOpen
    /\ isAddDialogOpen' = FALSE
    /\ formData' = DefaultTaskForm
    /\ UNCHANGED <<tasks, isEditDialogOpen, editingTask, draggedTask,
                   dragOverQuadrant, storedMatrix, toast>>
    /\ MatrixFrame

\* the Cancel button of the edit dialog
CancelEditDialog ==
    /\ MatrixIdle /\ isEditDialogOpen
    /\ isEditDialogOpen' = FALSE
    /\ editingTask' = None
    /\ formData' = DefaultTaskForm
    /\ UNCHANGED <<tasks, isAddDialogOpen, draggedTask, dragOverQuadrant,
                   storedMatrix, toast>>
    /\ MatrixFrame

\* addTask of the matrix TaskList
addTask ==
    /\ MatrixIdle /\ isAddDialogOpen
    /\ IF IsBlank(formData.text)
       THEN /\ toast' = "error: Task title is required"
            /\ UNCHANGED <<tasks, formData, isAddDialogOpen, storedMatrix>>
       ELSE /\ TotalTasks(tasks) < MaxTasks
            /\ tasks' = [tasks EXCEPT
                            ![LastQuadrant] = Append(@, NewTask(formData, now))]
            /\ formData' = DefaultTaskForm
            /\ isAddDialogOpen' = FALSE
            /\ toast' = "success: Task added! Drag it to the appropriate quadrant."
            /\ storedMatrix' = Some(tasks')
    /\ UNCHANGED <<isEditDialogOpen, editingTask, draggedTask, dragOverQuadrant>>
    /\ MatrixFrame

\* the edit button of task i of a quadrant
openEditDialog(quadrant, i) ==
    /\ MatrixIdle /\ NoDialog
    /\ i \in DOMAIN tasks[quadrant]
    /\ editingTask' = Some([task |-> tasks[quadrant][i], quadrant |-> quadrant])
    /\ formData' = [text |-> tasks[quadrant][i].text,
                    description |-> IF tasks[quadrant][i].description = Undefined
                                    THEN "" ELSE tasks[quadrant][i].description,
                    dueDate |-> IF tasks[quadrant][i].dueDate = Undefined
                                THEN "" ELSE tasks[quadrant][i].dueDate]
    /\ isEditDialogOpen' = TRUE
    /\ UNCHANGED <<tasks, isAddDialogOpen, draggedTask, dragOverQuadrant,
                   storedMatrix, toast>>
    /\ MatrixFrame

\* updateTask
updateTask ==
    /\ MatrixIdle /\ isEditDialogOpen
    /\ IF editingTask = None \/ IsBlank(formData.text)
       THEN /\ toast' = "error: Task title is required"
            /\ UNCHANGED <<tasks, formData, isEditDialogOpen, editingTask,
                           storedMatrix>>
       ELSE /\ tasks' = [tasks EXCEPT
                            ![editingTask[1].quadrant] =
                                ReplaceById(@, UpdatedTask(editingTask[1].task,
                                                           formData))]
            /\ formData' = DefaultTaskForm
            /\ isEditDialogOpen' = FALSE
            /\ editingTask' = None
            /\ toast' = "success: Task updated!"
            /\ storedMatrix' = Some(tasks')
    /\ UNCHANGED <<isAddDialogOpen, draggedTask, dragOverQuadrant>>
    /\ MatrixFrame

\* toggleTask(quadrant, taskId) from the checkbox of task i
toggleTask(quadrant, i) ==
    /\ MatrixIdle /\ NoDialog
    /\ i \in DOMAIN tasks[quadrant]
    /\ tasks' = [tasks EXCEPT ![quadrant] = ToggleById(@, tasks[quadrant][i].id)]
    /\ storedMatrix' = Some(tasks')
    /\ UNCHANGED <<formData, isAddDialogOpen, isEditDialogOpen, editingTask,
                   draggedTask, dragOverQuadrant, toast>>
    /\ MatrixFrame

\* deleteTask(quadrant, taskId) from the delete button of task i
deleteTask(quadrant, i) ==
    /\ MatrixIdle /\ NoDialog
    /\ i \in DOMAIN tasks[quadrant]
    /\ tasks' = [tasks EXCEPT ![quadrant] = FilterOut(@, tasks[quadrant][i].id)]
    /\ toast' = "success: Task deleted"
    /\ storedMatrix' = Some(tasks')
    /\ UNCHANGED <<formData, isAddDialogOpen, isEditDialogOpen, editingTask,
                   draggedTask, dragOverQuadrant>>
    /\ MatrixFrame

\* handleDragStart(task, quadrant) for task i of a quadrant
handleDragStart(quadrant, i) ==
    /\ MatrixIdle /\ NoDialog
    /\ i \in DOMAIN tasks[quadrant]
    /\ draggedTask' = Some([task |-> tasks[quadrant][i],
                            sourceQuadrant |-> quadrant])
    /\ UNCHANGED <<tasks, formData, isAddDialogOpen, isEditDialogOpen,
                   editingTask, dragOverQuadrant, storedMatrix, toast>>
    /\ MatrixFrame

\* handleDragOver(e, quadrant); the quadrant cards exist while there are tasks
handleDragOver(quadrant) ==
    /\ MatrixIdle /\ NoDialog
    /\ TotalTasks(tasks) # 0
    /\ dragOverQuadrant' = quadrant
    /\ UNCHANGED <<tasks, formData, isAddDialogOpen, isEditDialogOpen,
                   editingTask, draggedTask, storedMatrix, toast>>
    /\ MatrixFrame

\* handleDragLeave
handleDragLeave ==
    /\ MatrixIdle /\ NoDialog
    /\ TotalTasks(tasks) # 0
    /\ dragOverQuadrant' = Null
    /\ UNCHANGED <<tasks, formData, isAddDialogOpen, isEditDialogOpen,
                   editingTask, draggedTask, storedMatrix, toast>>
    /\ MatrixFrame

\* handleDrop(e, targetQuadrant): whatever is dropped on the card of a
\* quadrant, a task card or something else dragged over the page
handleDrop(targetQuadrant) ==
    /\ MatrixIdle /\ NoDialog
    /\ TotalTasks(tasks) # 0
    /\ dragOverQuadrant' = Null
    /\ IF draggedTask = None
       THEN UNCHANGED <<tasks, draggedTask, storedMatrix, toast>>
       ELSE IF draggedTask[1].sourceQuadrant = targetQuadrant
       THEN /\ draggedTask' = None
            /\ UNCHANGED <<tasks, storedMatrix, toast>>
       ELSE /\ tasks' = [tasks EXCEPT
                            ![draggedTask[1].sourceQuadrant] =
                                FilterOut(@, draggedTask[1].task.id),
                            ![targetQuadrant] = Append(@, draggedTask[1].task)]
            /\ draggedTask' = None
            /\ toast' = "success: Task moved"
            /\ storedMatrix' = Some(tasks')
    /\ UNCHANGED <<formData, isAddDialogOpen, isEditDialogOpen, editingTask>>
    /\ MatrixFrame

\* onChange of the input of the flat TaskList
SetNewTask(value) ==
    /\ phase = "flat"
    /\ newTask' = value
    /\ UNCHANGED <<flatTasks, storedTasks, toast>>
    /\ FlatFrame

\* addTask of the flat TaskList
flatAddTask ==
    /\ phase = "flat"
    /\ IF IsBlank(newTask)
       THEN UNCHANGED <<flatTasks, newTask, storedTasks, toast>>
       ELSE /\ Len(flatTasks) < MaxTasks
            /\ flatTasks' = Append(flatTasks, NewFlatTask(newTask, now))
            /\ newTask' = <<>>
            /\ toast' = "success: Task added!"
            /\ storedTasks' = Some(flatTasks')
    /\ FlatFrame

\* toggleTask(id) of the flat TaskList for task i
flatToggleTask(i) ==
    /\ phase = "flat"
    /\ i \in DOMAIN flatTasks
    /\ flatTasks' = ToggleById(flatTasks, flatTasks[i].id)
    /\ storedTasks' = Some(flatTasks')
    /\ UNCHANGED <<newTask, toast>>
    /\ FlatFrame

\* deleteTask(id) of the flat TaskList for task i
flatDeleteTask(i) ==
    /\ phase = "flat"
    /\ i \in DOMAIN flatTasks
    /\ flatTasks' = FilterOut(flatTasks, flatTasks[i].id)
    /\ toast' = "success: Task deleted"
    /\ storedTasks' = Some(flatTasks')
    /\ UNCHANGED newTask
    /\ FlatFrame

\* the application is replaced by the version with the matrix TaskList: the
\* flat TaskList is gone, the storage stays
Upgrade ==
    /\ phase = "flat"
    /\ phase' = "unmounted"
    /\ flatTasks' = <<>>
    /\ newTask' = <<>>
    /\ UNCHANGED <<tasks, formData, isAddDialogOpen, isEditDialogOpen,
                   editingTask, draggedTask, dragOverQuadrant, storedMatrix,
                   storedTasks, storeVars, clockVars, aggVars, persistVars>>

\* no TaskList is shown and the storage holds no tasks
TasksIdle ==
    /\ phase = "unmounted"
    /\ MatrixInitial
    /\ FlatInitial
    /\ storedMatrix = None
    /\ storedTasks = None

\* the tab shows v, no second tab is open, the "habits" entry holds hs
PersistIdle(v, hs) ==
    /\ storedHabits = Stringify(hs)
    /\ view = v
    /\ otherHabits = None
    /\ storageEvent = FALSE
    /\ loading = TRUE

-----------------------------------------------------------------------------
(* Spec: the habit store under the clock, with the detail dialog.  The     *)
(* forms are edited in their name field only.                              *)

\* the days of the calendar the user clicks: yesterday, today, tomorrow
ClickDays == (FormatDate(now, tz) - 1) .. (FormatDate(now, tz) + 1)

StoreInit ==
    /\ habits = <<>>
    /\ showForm = FALSE
    /\ newHabit = DefaultForm
    /\ editingId = Null
    /\ editForm = DefaultForm
    /\ selectedHabit = None
    /\ validationErrors = NoErrors
    /\ editValidationErrors = NoErrors
    /\ toast = "none"

AggIdle ==
    /\ snapshot = <<>>
    /\ tasksMatrix = EmptyTaskMatrix
    /\ dateRange = None
    /\ data = None
    /\ remote = None

Init ==
    /\ StoreInit
    /\ now = StartOfSession
    /\ tz \in TzOffsets
    /\ AggIdle
    /\ TasksIdle
    /\ PersistIdle("habits", habits)

Next ==
    \/ ToggleShowForm
    \/ SetNewHabit("name", <<"a">>)
    \/ addHabit
    \/ \E i \in 1..MaxHabits : startEditing(i)
    \/ SetEditForm("name", <<"b">>)
    \/ updateHabit
    \/ CancelEditing
    \/ \E i \in 1..MaxHabits : deleteHabit(i)
    \/ \E i \in 1..MaxHabits : CheckClick(i)
    \/ \E i \in 1..MaxHabits : SelectHabit(i)
    \/ \E day \in ClickDays : onDayClick(day)
    \/ CloseDetail
    \/ Tick

Spec == Init /\ [][Next]_vars

-----------------------------------------------------------------------------
(* Properties of the habit store (checked under Spec).                     *)

\* two completions maps are the same map when an absent key counts as false
SameCompletions(c1, c2) ==
    \A d \in DOMAIN c1 \cup DOMAIN c2 : Truthy(c1, d) = Truthy(c2, d)

\* the user's calendar date
LocalToday == FormatDate(now, tz)

\* a notice that reports a rejection
IsRejection(notice) ==
    notice = "error: Please fix the validation errors before submitting"

\* C6 (as claimed): a toggle asked from the detail calendar for a day that is
\* not after today flips the completion flag of exactly that day of the
\* displayed habit and leaves the flags of all its other days unchanged.
C6_DayClickFlipsThatDay ==
    [][\A day \in ClickDays :
          (onDayClick(day) /\ day <= LocalToday) =>
              \A i \in DOMAIN habits :
                  habits[i].id = selectedHabit[1].id =>
                      /\ Truthy(habits'[i].completions, day)
                            = ~Truthy(habits[i].completions, day)
                      /\ \A d \in (DOMAIN habits[i].completions
                                   \cup DOMAIN habits'[i].completions) \ {day} :
                            Truthy(habits'[i].completions, d)
                                = Truthy(habits[i].completions, d)]_vars

\* C7 (as claimed): a toggle asked for a day strictly after today changes no
\* habit's completions and reports a rejection to the user.
C7_FutureDayClickRejected ==
    [][\A day \in ClickDays :
          (onDayClick(day) /\ day > LocalToday) =>
              /\ \A i \in DOMAIN habits :
                    habits'[i].completions = habits[i].completions
              /\ IsRejection(toast')]_vars

\* C8 (as claimed): whatever the operations, clock readings and timezone, a
\* key that a step creates in a habit's completions map is never a date later
\* than the user's calendar date at that moment.
C8_NoFutureKeyCreated ==
    [][\A i \in DOMAIN habits' :
          (i \in DOMAIN habits /\ habits[i].id = habits'[i].id) =>
              \A k \in DOMAIN habits'[i].completions
                        \ DOMAIN habits[i].completions :
                  k <= LocalToday]_vars

\* C9: toggling a habit twice for the same today gives back every habit's
\* completions map (an absent key counting as false) and every other field,
\* in the same order; the habits with another id are untouched by each toggle.
C9_ToggleTwiceRestores ==
    \A i \in DOMAIN habits :
        LET id    == habits[i].id
            once  == Toggled(habits, id, ISODate(now))
            twice == Toggled(once, id, ISODate(now))
        IN  /\ DOMAIN once = DOMAIN habits
            /\ DOMAIN twice = DOMAIN habits
            /\ \A j \in DOMAIN habits :
                  /\ SameCompletions(twice[j].completions, habits[j].completions)
                  /\ [twice[j] EXCEPT !.completions = habits[j].completions]
                        = habits[j]
                  /\ habits[j].id # id => once[j] = habits[j] /\ twice[j] = habits[j]
                  /\ habits[j].id = id =>
                        ~SameCompletions(once[j].completions, habits[j].completions)

\* C9's case: a habit's flag of today has been toggled on and off again (its
\* key is present and false) next to a habit with another id that has a
\* completion of its own
C9_Witness ==
    \E i, j \in DOMAIN habits :
        /\ habits[i].id # habits[j].id
        /\ ISODate(now) \in DOMAIN habits[i].completions
        /\ habits[i].completions[ISODate(now)] = FALSE
        /\ \E d \in DOMAIN habits[j].completions : habits[j].completions[d]

-----------------------------------------------------------------------------
(***************************************************************************)
(* SpecForm: the habit store with its two forms.  A step that submits a    *)
(* form stands for the onChange events that bring the form to the data     *)
(* submitted, followed by the click.  The clock stands still and the       *)
(* detail dialog stays closed.                                             *)
(***************************************************************************)

MaxFormHabits == 1   \* habits the store holds at most under SpecForm

\* a name of n letters
Letters(n) == [i \in 1..n |-> "a"]

\* forms that pass validation: a daily habit and the two kinds of custom habit
BaseForms ==
    { [DefaultForm EXCEPT !.name = <<"a">>],
      [DefaultForm EXCEPT !.name = <<"a">>, !.frequency = "custom"],
      [DefaultForm EXCEPT !.name = <<"a">>, !.frequency = "custom",
                          !.customType = "count-based"] }

\* the values typed into or chosen for each field
FieldInputs ==
    [name |-> {<<>>, <<" ">>, <<"a">>, Letters(NameMaxLen) \o <<" ">>,
               Letters(NameMaxLen + 1)},
     frequency |-> {"daily", "custom"},
     customType |-> {"time-based", "count-based"},
     minutesPerDay |-> {0, 30},
     countPerDay |-> {0, 1},
     daysPerWeek |-> {0, 5, DaysPerWeekMax + 1},
     leavesAllowedPerMonth |-> {-1, 0, LeavesMax + 1},
     status |-> {"active"}]

\* the forms of the model: a valid form with at most one field changed
FormInputs ==
    UNION { { [b EXCEPT ![field] = v] : v \in FieldInputs[field] } :
            <<b, field>> \in BaseForms \X DOMAIN FieldInputs }

FormInit ==
    /\ StoreInit
    /\ now = StartOfSession
    /\ tz = 0
    /\ AggIdle
    /\ TasksIdle
    /\ PersistIdle("habits", habits)

FormNext ==
    \/ ToggleShowForm
    \/ \E f \in FormInputs : addHabitOn(f) /\ Len(habits') <= MaxFormHabits
    \/ \E i \in 1..MaxHabits : startEditing(i)
    \/ \E f \in FormInputs : updateHabitOn(f)
    \/ CancelEditing
    \/ \E i \in 1..MaxHabits : deleteHabit(i)

SpecForm == FormInit /\ [][FormNext]_vars

-----------------------------------------------------------------------------
(* Properties of validation (checked under SpecForm).                      *)

\* form data that fails validation according to the claim: the name is empty
\* after trimming or, trimmed, longer than 50 characters; leavesAllowedPerMonth
\* is outside 0..31; or, with frequency custom, daysPerWeek is outside 1..7 or
\* the numeric field of the chosen customType is below 1 (an emptied field
\* holds 0; the form's numbers are integers)
FailsValidation(f) ==
    \/ Trim(f.name) = <<>>
    \/ Len(Trim(f.name)) > 50
    \/ f.leavesAllowedPerMonth < 0
    \/ f.leavesAllowedPerMonth > 31
    \/ /\ f.frequency = "custom"
       /\ \/ f.daysPerWeek < 1
          \/ f.daysPerWeek > 7
          \/ f.customType = "time-based" /\ f.minutesPerDay < 1
          \/ f.customType = "count-based" /\ f.countPerDay < 1

\* a non-empty map of messages keyed by fields of the form
IsFieldErrors(errors) ==
    /\ DOMAIN errors # {}
    /\ DOMAIN errors \subseteq DOMAIN DefaultForm
    /\ \A k \in DOMAIN errors : errors[k] # ""

\* C10: addHabit and updateHabit run on form data that fails validation leave
\* the habit collection exactly as it was (same records, same order) and set a
\* non-empty field-keyed map of error messages.
C10_InvalidFormRejected ==
    [][\A f \in FormInputs :
          FailsValidation(f) =>
              /\ addHabitOn(f) =>
                    habits' = habits /\ IsFieldErrors(validationErrors')
              /\ updateHabitOn(f) =>
                    habits' = habits /\ IsFieldErrors(editValidationErrors')]_vars

\* C10's case: with a habit in the store, an add was refused for a custom form
\* whose only fault is daysPerWeek = 8 and an update was refused for a form
\* whose only fault is a blank name
C10_Witness ==
    /\ Len(habits) = 1
    /\ newHabit = [DefaultForm EXCEPT !.name = <<"a">>, !.frequency = "custom",
                                      !.daysPerWeek = 8]
    /\ DOMAIN validationErrors = {"daysPerWeek"}
    /\ editingId = habits[1].id
    /\ editForm = [DefaultForm EXCEPT !.name = <<" ">>]
    /\ DOMAIN editValidationErrors = {"name"}

-----------------------------------------------------------------------------
(* SpecAgg: the analytics dashboard over stored habits and tasks.  The     *)
(* stored data, the clock and the time zone are drawn from bounded sets;   *)
(* the user picks date ranges and the two aggregators compute.             *)

MaxSnapshotHabits == 2   \* habits the stored snapshot holds at most

\* the instant the dashboard is open: day 400 at 12:00Z, a Tuesday
DashboardOpened == 400 * 24 + 12

\* the day of that instant in UTC, on which the stored histories end
LastStoredDay == DayOfHours(DashboardOpened)

\* a history in which every day from a to b is completed
Run(a, b) == [d \in a..b |-> TRUE]

\* the completions maps of the stored habits: nothing; the last day; the last
\* five days; the last day and two days before it, the day between toggled
\* twice; the last 23 days; more than ScanDays days
Histories ==
    {<<>>,
     Run(LastStoredDay, LastStoredDay),
     Run(LastStoredDay - 4, LastStoredDay),
     [d \in (LastStoredDay - 2)..LastStoredDay |-> d # LastStoredDay - 1],
     Run(LastStoredDay - 22, LastStoredDay),
     Run(LastStoredDay - ScanDays - 5, LastStoredDay)}

\* a habit as the store saved it, with a history
StoredHabit(name, completions) ==
    [NewHabitRecord([DefaultForm EXCEPT !.name = name], 0)
        EXCEPT !.completions = completions]

\* the arrays the "habits" entry of the storage can hold
Snapshots ==
    UNION {[1..n -> {StoredHabit(<<"a">>, h) : h \in Histories}] :
           n \in 0..MaxSnapshotHabits}

\* the objects the "tasks-matrix" entry of the storage can hold
TaskMatrices ==
    {EmptyTaskMatrix,
     [q \in {Quadrants[k] : k \in 1..4} |->
        IF q = "urgent-important"
        THEN <<[completed |-> TRUE], [completed |-> FALSE]>>
        ELSE IF q = "not-urgent-important" THEN <<[completed |-> TRUE]>>
        ELSE <<>>]}

\* the instant of local midnight at the start of a calendar day
Midnight(d, offset) == d * 24 - offset

\* the ranges the pickers hand to the aggregators at instant t: none; one day
\* clicked in the calendar, today or the day before yesterday; the presets of
\* the last 7 and of the last 30 days; a custom range of 40 days ending today
Ranges(t, offset) ==
    LET today == FormatDate(t, offset)
    IN  {None,
         Some([from |-> Midnight(today, offset), to |-> None]),
         Some([from |-> Midnight(today - 2, offset), to |-> None]),
         Some([from |-> t - 6 * 24, to |-> Some(t)]),
         Some([from |-> t - 29 * 24, to |-> Some(t)]),
         Some([from |-> Midnight(today - 39, offset),
               to |-> Some(Midnight(today, offset))])}

\* calculateAnalytics of the local aggregator, run by the effect on mount and
\* by the storage event: reads the storage and sets data
calculateAnalytics ==
    /\ data' = Some(LocalAnalytics(snapshot, tasksMatrix, dateRange, now, tz))
    /\ loading' = FALSE
    /\ UNCHANGED <<snapshot, tasksMatrix, dateRange, remote, clockVars, storeVars,
                 taskVars, storedHabits, tabVars>>

\* the query function of the remote aggregator, enabled by a range
queryFn ==
    /\ dateRange # None
    /\ remote' = Some(RemoteAnalytics(RemoteRows(snapshot), dateRange, now, tz))
    /\ UNCHANGED <<snapshot, tasksMatrix, dateRange, data, clockVars, storeVars,
                 taskVars, persistVars>>

\* the user picks a range: the effect of the local aggregator runs again with
\* it, and the query of the remote aggregator has a new key without a result
SetDateRange(range) ==
    /\ range # dateRange
    /\ dateRange' = range
    /\ data' = Some(LocalAnalytics(snapshot, tasksMatrix, range, now, tz))
    /\ remote' = None
    /\ loading' = FALSE
    /\ UNCHANGED <<snapshot, tasksMatrix, clockVars, storeVars,
                 taskVars, storedHabits, tabVars>>

\* the instant the dashboard is open over the two habits A and B:
\* 2024-01-10 at 12:00Z
StreakExampleOpened == 9 * 24 + 12

\* two habits, A and B, completed on 2024-01-01, 2024-01-02 and 2024-01-03
StreakExample ==
    <<StoredHabit(<<"A">>, Run(0, 2)), StoredHabit(<<"B">>, Run(0, 2))>>

AggInit ==
    /\ StoreInit
    /\ tz \in TzOffsets
    /\ \/ now = DashboardOpened /\ snapshot \in Snapshots
       \/ now = StreakExampleOpened /\ snapshot = StreakExample
    /\ tasksMatrix \in TaskMatrices
    /\ dateRange = None
    /\ data = None
    /\ remote = None
    /\ TasksIdle
    /\ PersistIdle("analytics", snapshot)

AggNext ==
    \/ calculateAnalytics
    \/ queryFn
    \/ \E range \in Ranges(now, tz) : SetDateRange(range)

SpecAgg == AggInit /\ [][AggNext]_vars

-----------------------------------------------------------------------------
(* Properties of the aggregators, stated on the stored snapshot.           *)

\* the calendar days of a range that gives both of its ends
RangeDays(range) ==
    FormatDate(range[1].from, tz) .. FormatDate(range[1].to[1], tz)

\* the (habit, day) cells of the requested range that are completed
RangeCompleted ==
    {c \in (1..Len(snapshot)) \X RangeDays(dateRange) :
        Truthy(snapshot[c[1]].completions, c[2])}

\* 100 * c / p rounded to the nearest integer, a half upwards
ExactPercent(c, p) == (200 * c + p) \div (2 * p)

\* the rate the specification gives for the requested range
ClaimedRate ==
    LET possible == Cardinality(RangeDays(dateRange)) * Len(snapshot)
    IN  IF possible = 0 THEN 0
        ELSE ExactPercent(Cardinality(RangeCompleted), possible)

\* C1: for a range [from, to], completionRate of either aggregator is
\* round(100 * C / P), with P the days of the range times the habits and C
\* the completed cells of the range; it is 0 when P = 0 and lies in 0..100.
C1_CompletionRateIsExactRatio ==
    (dateRange # None /\ dateRange[1].to # None) =>
        /\ data # None =>
              /\ data[1].completionRate = ClaimedRate
              /\ data[1].completionRate \in 0..100
        /\ remote # None =>
              /\ remote[1].completionRate = ClaimedRate
              /\ remote[1].completionRate \in 0..100

\* the 365 days that end today
ScanWindow == (LocalToday - 364) .. LocalToday

\* the days of the window on which every habit of the snapshot is completed
AllCompletedDays ==
    {d \in ScanWindow :
        /\ Len(snapshot) > 0
        /\ \A j \in 1..Len(snapshot) : Truthy(snapshot[j].completions, d)}

\* the greatest and the least member of a finite set of integers
Greatest(S) == CHOOSE x \in S : \A y \in S : y <= x
Least(S) == CHOOSE x \in S : \A y \in S : x <= y

\* the length of the longest run of consecutive days within a set of days
LongestRun(S) ==
    LET starts == {d \in S : d - 1 \notin S}
        ends   == {d \in S : d + 1 \notin S}
    IN  Greatest({0} \cup {Least({e \in ends : e >= d}) - d + 1 : d \in starts})

\* C2: bestStreak is the length of the longest run of consecutive days, among
\* the 365 days that end today, on which every habit of the snapshot is
\* completed.
C2_BestStreakCountsFullDays ==
    /\ data # None => data[1].bestStreak = LongestRun(AllCompletedDays)
    /\ remote # None => remote[1].bestStreak = LongestRun(AllCompletedDays)

\* at least one habit of the snapshot is completed on the day
SomeCompleted(d) ==
    \E j \in 1..Len(snapshot) : Truthy(snapshot[j].completions, d)

\* the number n of the claim: the days today, ..., today - (n - 1) have a
\* completion each, and the day today - n has none unless n is 365
ContiguousFromToday ==
    CHOOSE n \in 0..365 :
        /\ \A k \in 0..(n - 1) : SomeCompleted(LocalToday - k)
        /\ n = 365 \/ ~SomeCompleted(LocalToday - n)

\* C3: currentStreak is the number of consecutive days, counted back from
\* today, on each of which at least one habit is completed; it stops at the
\* first day without a completion and at 365.
C3_CurrentStreakIsContiguousFromToday ==
    data # None => data[1].currentStreak = ContiguousFromToday

\* a single habit completed on the last five days up to today and not on the
\* day before them: the aggregator has computed currentStreak = 5
C3_Witness ==
    /\ data # None
    /\ Len(snapshot) = 1
    /\ \A k \in 0..4 : Truthy(snapshot[1].completions, LocalToday - k)
    /\ ~Truthy(snapshot[1].completions, LocalToday - 5)
    /\ data[1].currentStreak = 5

\* C4: with zero habits the aggregators produce completionRate = 0,
\* bestStreak = 0, currentStreak = 0 and mostProductiveDay = "N/A".
C4_EmptySnapshotGivesSentinels ==
    Len(snapshot) = 0 =>
        /\ data # None =>
              /\ data[1].completionRate = 0
              /\ data[1].bestStreak = 0
              /\ data[1].currentStreak = 0
              /\ data[1].mostProductiveDay = "N/A"
        /\ remote # None =>
              /\ remote[1].completionRate = 0
              /\ remote[1].bestStreak = 0
              /\ remote[1].mostProductiveDay = "N/A"

\* the completed and the possible cells of the window on the weekday w
WindowCompleted(w) ==
    Cardinality({c \in (1..Len(snapshot)) \X {d \in ScanWindow : Weekday(d) = w} :
                    Truthy(snapshot[c[1]].completions, c[2])})
WindowPossible(w) ==
    Cardinality({d \in ScanWindow : Weekday(d) = w}) * Len(snapshot)

\* the ratio of the weekday w is at least the ratio of the weekday v
RatioAtLeast(w, v) ==
    WindowCompleted(w) * WindowPossible(v) >= WindowCompleted(v) * WindowPossible(w)

\* the first weekday, from Monday on, whose ratio no weekday exceeds
FirstBestWeekday ==
    Least({w \in 0..6 : \A v \in 0..6 : RatioAtLeast(w, v)})

\* C5: with a completion in the scanned window, mostProductiveDay names the
\* weekday with the highest ratio of completed to possible cells over the
\* window, the first of them in the order Monday to Sunday when several
\* share it.
C5_MostProductiveDayIsFirstBestRatio ==
    (\E d \in ScanWindow : SomeCompleted(d)) =>
        /\ data # None =>
              data[1].mostProductiveDay = DayNames[FirstBestWeekday + 1]
        /\ remote # None =>
              remote[1].mostProductiveDay = LongDayNames[FirstBestWeekday + 1]

-----------------------------------------------------------------------------
(* Properties of the identifiers and of the custom fields of the habits.   *)

\* C11: after any sequence of adds and deletes all habits of the collection
\* have pairwise distinct ids, whatever the clock readings of the adds, two
\* adds at the same reading included.
C11_IdsPairwiseDistinct ==
    \A i, j \in 1..Len(habits) : habits[i].id = habits[j].id => i = j

\* SpecCustom: the habit store driven with forms that pass validation: habits
\* are added, updated from one kind to another, toggled and deleted
CustomNext ==
    \/ ToggleShowForm
    \/ \E f \in BaseForms : addHabitOn(f)
    \/ \E i \in 1..MaxHabits : startEditing(i)
    \/ \E f \in BaseForms : updateHabitOn(f)
    \/ CancelEditing
    \/ \E i \in 1..MaxHabits : deleteHabit(i)
    \/ \E i \in 1..MaxHabits : CheckClick(i)

SpecCustom == FormInit /\ [][CustomNext]_vars

\* C12: a habit with frequency custom has customType set and exactly the
\* numeric field of this type populated (time-based: minutesPerDay,
\* count-based: countPerDay); a habit with another frequency has none of
\* customType, minutesPerDay, countPerDay and daysPerWeek populated.
C12_CustomFieldsMatchFrequency ==
    \A i \in 1..Len(habits) :
        LET h == habits[i]
        IN  IF h.frequency = "custom"
            THEN /\ h.customType \in {"time-based", "count-based"}
                 /\ h.customType = "time-based" =>
                        h.minutesPerDay # None /\ h.countPerDay = None
                 /\ h.customType = "count-based" =>
                        h.countPerDay # None /\ h.minutesPerDay = None
            ELSE /\ h.customType = Undefined
                 /\ h.minutesPerDay = None
                 /\ h.countPerDay = None
                 /\ h.daysPerWeek = None

\* C12's case: a habit that was toggled has been updated with a count-based
\* custom form, and holds countPerDay and no minutesPerDay
C12_Witness ==
    /\ Len(habits) >= 1
    /\ toast = "success: Habit updated successfully!"
    /\ habits[1].completions # <<>>
    /\ habits[1].frequency = "custom"
    /\ habits[1].customType = "count-based"
    /\ habits[1].countPerDay = Some(1)
    /\ habits[1].minutesPerDay = None
-----------------------------------------------------------------------------
(* SpecTasks: the task stores.  A session starts either with the flat      *)
(* TaskList shown, which the matrix TaskList later replaces, or with the   *)
(* matrix TaskList not yet shown and nothing stored.                       *)

\* the titles typed into a task form: empty, blank, and a proper one
TaskTitles == { <<>>, <<" ">>, <<"t">> }

\* the quadrants whose cards are clicked, dragged from and dropped on
TaskQuadrants == { "urgent-important", LastQuadrant }

MaxTaskTicks == 1     \* steps of the clock while the task stores are used

\* the clock advances while the task stores are used
TaskTick ==
    /\ now < StartOfSession + 12 * MaxTaskTicks
    /\ Tick

TasksInit ==
    /\ StoreInit
    /\ now = StartOfSession
    /\ tz = 0
    /\ AggIdle
    /\ MatrixInitial
    /\ FlatInitial
    /\ storedMatrix = None
    /\ \/ phase = "flat" /\ storedTasks = Some(<<>>)
       \/ phase = "unmounted" /\ storedTasks = None
    /\ PersistIdle("tasks", habits)

TasksNext ==
    \/ \E v \in TaskTitles : SetNewTask(v)
    \/ flatAddTask
    \/ \E i \in 1..MaxTasks : flatToggleTask(i)
    \/ \E i \in 1..MaxTasks : flatDeleteTask(i)
    \/ Upgrade
    \/ MountTaskList
    \/ MountEffects
    \/ SettleEffects
    \/ UnmountTaskList
    \/ OpenAddDialog
    \/ \E v \in TaskTitles : SetTaskText(v)
    \/ DismissDialog
    \/ CancelAddDialog
    \/ CancelEditDialog
    \/ addTask
    \/ \E q \in TaskQuadrants, i \in 1..MaxTasks : openEditDialog(q, i)
    \/ updateTask
    \/ \E q \in TaskQuadrants, i \in 1..MaxTasks : toggleTask(q, i)
    \/ \E q \in TaskQuadrants, i \in 1..MaxTasks : deleteTask(q, i)
    \/ \E q \in TaskQuadrants, i \in 1..MaxTasks : handleDragStart(q, i)
    \/ \E q \in TaskQuadrants : handleDragOver(q)
    \/ handleDragLeave
    \/ \E q \in TaskQuadrants : handleDrop(q)
    \/ TaskTick

SpecTasks == TasksInit /\ [][TasksNext]_vars

\* list is shorter by its last element, which is not completed
AppendedOneOpen(before, after) ==
    /\ Len(after) = Len(before) + 1
    /\ SubSeq(after, 1, Len(before)) = before
    /\ after[Len(after)].completed = FALSE

\* C13: addTask with an empty or all-blank title leaves the tasks as they
\* were; with any other title it appends exactly one task, not completed, in
\* the matrix TaskList to the quadrant 'not-urgent-not-important' and to no
\* other, in the flat TaskList to the list.
C13_AddTaskRejectsBlankAppendsOne ==
    [][ /\ addTask =>
            IF Trim(formData.text) = <<>>
            THEN tasks' = tasks
            ELSE /\ AppendedOneOpen(tasks[LastQuadrant], tasks'[LastQuadrant])
                 /\ \A q \in DOMAIN tasks \ {LastQuadrant} : tasks'[q] = tasks[q]
        /\ flatAddTask =>
            IF Trim(newTask) = <<>>
            THEN flatTasks' = flatTasks
            ELSE AppendedOneOpen(flatTasks, flatTasks')
      ]_vars

\* a blank title has just been rejected by a matrix that a successful
\* addTask had filled before
C13_Witness ==
    /\ phase = "idle"
    /\ isAddDialogOpen
    /\ formData.text = <<" ">>
    /\ toast = "error: Task title is required"
    /\ Len(tasks[LastQuadrant]) = 1
    /\ tasks[LastQuadrant][1].completed = FALSE
    /\ tasks[LastQuadrant][1].text = <<"t">>
    /\ TotalTasks(tasks) = 1

\* the ids of the tasks of a quadrant list
IdsOf(list) == { list[i].id : i \in DOMAIN list }

\* every task id of the matrix occurs in one quadrant list, and once
EachIdOnce(tm) ==
    \A q1, q2 \in DOMAIN tm : \A i \in DOMAIN tm[q1], j \in DOMAIN tm[q2] :
        tm[q1][i].id = tm[q2][j].id => q1 = q2 /\ i = j

\* C14: under addTask, updateTask, toggleTask, deleteTask, handleDragStart and
\* handleDrop every task id occurs in exactly one quadrant list and once; a
\* drop on another quadrant takes the dragged task out of its source list and
\* appends it to the target list, the number of tasks unchanged; a drop on the
\* source quadrant changes no task.
C14_EachTaskInOneQuadrant ==
    [][ /\ EachIdOnce(tasks')
        /\ \A q \in TaskQuadrants :
             handleDrop(q) /\ draggedTask # None =>
                IF draggedTask[1].sourceQuadrant = q
                THEN tasks' = tasks
                ELSE /\ draggedTask[1].task.id
                            \notin IdsOf(tasks'[draggedTask[1].sourceQuadrant])
                     /\ Len(tasks'[q]) = Len(tasks[q]) + 1
                     /\ SubSeq(tasks'[q], 1, Len(tasks[q])) = tasks[q]
                     /\ tasks'[q][Len(tasks'[q])].id = draggedTask[1].task.id
                     /\ TotalTasks(tasks') = TotalTasks(tasks)
      ]_vars

-----------------------------------------------------------------------------
(* SpecMigration: the flat TaskList, its replacement by the matrix         *)
(* TaskList, and the mounts of the latter, with the handlers of the task   *)
(* cards.  The effects of a mount, once scheduled, do run, and the render  *)
(* they ask for does follow.                                               *)

MigrationNext ==
    \/ \E v \in TaskTitles : SetNewTask(v)
    \/ flatAddTask
    \/ \E i \in 1..MaxTasks : flatToggleTask(i)
    \/ \E i \in 1..MaxTasks : flatDeleteTask(i)
    \/ Upgrade
    \/ MountTaskList
    \/ MountEffects
    \/ SettleEffects
    \/ UnmountTaskList
    \/ \E q \in TaskQuadrants, i \in 1..MaxTasks : toggleTask(q, i)
    \/ \E q \in TaskQuadrants, i \in 1..MaxTasks : deleteTask(q, i)
    \/ \E q \in TaskQuadrants, i \in 1..MaxTasks : handleDragStart(q, i)
    \/ \E q \in TaskQuadrants : handleDrop(q)
    \/ TaskTick

SpecMigration ==
    /\ TasksInit
    /\ [][MigrationNext]_vars
    /\ WF_vars(MountEffects)
    /\ WF_vars(SettleEffects)

\* the instants at which the flat TaskList may have added a task
LegacyInstants == { StartOfSession + 12 * k : k \in 0..MaxTaskTicks }

\* the arrays the flat TaskList may have stored
LegacyTask == { [NewFlatTask(<<"t">>, t) EXCEPT !.completed = c] :
                    t \in LegacyInstants, c \in BOOLEAN }
LegacyArrays == UNION { [1..n -> LegacyTask] : n \in 0..MaxTasks }

\* the matrix whose last quadrant is the array and whose others are empty
OnlyInLastQuadrant(tm, array) ==
    /\ tm[LastQuadrant] = array
    /\ \A q \in DOMAIN tm \ {LastQuadrant} : tm[q] = <<>>

\* the TaskList has been rendered for the first time over a storage that
\* holds the array of the flat list and no matrix
MountsOverLegacy(array) ==
    /\ phase = "mounting"
    /\ storedMatrix = None
    /\ storedTasks = Some(array)

\* C20: when TaskList mounts over a stored legacy array of tasks, the effects
\* of the mount put all its tasks, in their order, into the quadrant
\* 'not-urgent-not-important' and delete the legacy key; the legacy key never
\* comes back, so the migration happens at most once; and the mount settles
\* with the migrated matrix as the stored 'tasks-matrix'.
C20_LegacyTasksMigrateOnce ==
    /\ [][ MountEffects /\ storedMatrix = None /\ storedTasks # None =>
              /\ OnlyInLastQuadrant(tasks', storedTasks[1])
              /\ storedTasks' = None ]_vars
    /\ [][ phase # "flat" /\ storedTasks = None => storedTasks' = None ]_vars
    /\ \A array \in LegacyArrays :
          MountsOverLegacy(array) ~>
              /\ phase = "idle"
              /\ OnlyInLastQuadrant(tasks, array)
              /\ storedMatrix = Some(tasks)
              /\ storedTasks = None

\* the mount has settled after the migration of two tasks added at different
\* instants, the second one completed
C20_Witness ==
    /\ phase = "idle"
    /\ toast = "success: Tasks migrated to Eisenhower Matrix!"
    /\ storedTasks = None
    /\ storedMatrix = Some(tasks)
    /\ Len(tasks[LastQuadrant]) = 2
    /\ tasks[LastQuadrant][1].id = "24"
    /\ tasks[LastQuadrant][2].id = "36"
    /\ tasks[LastQuadrant][2].completed
    /\ TotalTasks(tasks) = 2

-----------------------------------------------------------------------------
(* Properties of the range-scoped and of the task outputs of the           *)
(* aggregators.                                                            *)

\* the calendar days of the requested range in ascending order: from its
\* first day to its last, or the one day of from when to is missing
RequestedDays ==
    LET first == FormatDate(dateRange[1].from, tz)
        last  == IF dateRange[1].to = None THEN first
                 ELSE FormatDate(dateRange[1].to[1], tz)
    IN  [i \in 1..(last - first + 1) |-> first + i - 1]

\* the number of habits of the snapshot completed on the day
CompletedOn(d) ==
    Cardinality({j \in 1..Len(snapshot) : Truthy(snapshot[j].completions, d)})

\* the entries are those of the requested days, one each and in their order,
\* each with the number of habits completed on its day
OneEntryPerDay(weeklyProgress) ==
    /\ Len(weeklyProgress) = Len(RequestedDays)
    /\ \A i \in 1..Len(weeklyProgress) :
          /\ weeklyProgress[i].date = RequestedDays[i]
          /\ weeklyProgress[i].completed = CompletedOn(RequestedDays[i])

\* C15: for a requested range, a single day when it has no 'to', weeklyProgress
\* has exactly one entry per calendar day of the range, in ascending order;
\* the entry's completed is the number of habits completed on its day and its
\* total, where there is one, the number of habits.
C15_WeeklyProgressOneEntryPerDay ==
    dateRange # None =>
        /\ data # None =>
              /\ OneEntryPerDay(data[1].weeklyProgress)
              /\ \A i \in 1..Len(data[1].weeklyProgress) :
                    data[1].weeklyProgress[i].total = Len(snapshot)
        /\ remote # None => OneEntryPerDay(remote[1].weeklyProgress)

\* the keys are the requested days, and the list of each day has one entry
\* per habit of the snapshot, in the order of the snapshot
DetailsOfRequestedDays(dailyDetails) ==
    /\ DOMAIN dailyDetails = {RequestedDays[i] : i \in 1..Len(RequestedDays)}
    /\ \A d \in DOMAIN dailyDetails :
          /\ Len(dailyDetails[d]) = Len(snapshot)
          /\ \A j \in 1..Len(snapshot) :
                dailyDetails[d][j] =
                    [name |-> snapshot[j].name,
                     completed |-> Truthy(snapshot[j].completions, d)]

\* C16: dailyDetails has a key for exactly the days of the requested range,
\* and the list of each day has one {name, completed} entry per habit of the
\* snapshot, in snapshot order, completed being true exactly when the habit's
\* completions hold true for the day.
C16_DailyDetailsCoverRange ==
    dateRange # None =>
        /\ data # None => DetailsOfRequestedDays(data[1].dailyDetails)
        /\ remote # None => DetailsOfRequestedDays(remote[1].dailyDetails)

\* the sum of the values of the entries i, ..., of a taskDistribution
RECURSIVE SumOfValues(_, _)
SumOfValues(taskDistribution, i) ==
    IF i > Len(taskDistribution) THEN 0
    ELSE taskDistribution[i].value + SumOfValues(taskDistribution, i + 1)

\* the number of tasks of the stored matrix, and of its completed tasks
StoredTaskCells ==
    {c \in (1..4) \X (1..3) : c[2] <= Len(tasksMatrix[Quadrants[c[1]]])}
StoredCompletedCells ==
    {c \in StoredTaskCells : tasksMatrix[Quadrants[c[1]]][c[2]].completed}

\* C17: taskDistribution has an entry for a quadrant exactly when the quadrant
\* holds a task; the entry's value is the number of tasks of the quadrant and
\* its colour the one of the quadrant; the entries come in the order of the
\* quadrants; the values add up to the number of all tasks, which is at least
\* totalTasksCompleted, the number of completed tasks of the four quadrants
\* whatever the requested range.
C17_TaskDistributionCountsQuadrants ==
    data # None =>
        LET td == data[1].taskDistribution
            quadrantOf(i) == CHOOSE k \in 1..4 : QuadrantNames[k] = td[i].name
        IN  /\ \A i \in 1..Len(td) : \E k \in 1..4 : QuadrantNames[k] = td[i].name
            /\ \A k \in 1..4 :
                  Len(tasksMatrix[Quadrants[k]]) > 0
                     <=> \E i \in 1..Len(td) : quadrantOf(i) = k
            /\ \A i \in 1..Len(td) :
                  /\ td[i].value = Len(tasksMatrix[Quadrants[quadrantOf(i)]])
                  /\ td[i].color = QuadrantColors[quadrantOf(i)]
            /\ \A i, j \in 1..Len(td) : i < j => quadrantOf(i) < quadrantOf(j)
            /\ SumOfValues(td, 1) = Cardinality(StoredTaskCells)
            /\ SumOfValues(td, 1) >= data[1].totalTasksCompleted
            /\ data[1].totalTasksCompleted = Cardinality(StoredCompletedCells)

\* the aggregator has run for a requested range over a matrix of which two
\* quadrants hold tasks, three tasks in all, two of them completed
C17_Witness ==
    /\ data # None
    /\ dateRange # None
    /\ Cardinality(StoredTaskCells) = 3
    /\ Len(data[1].taskDistribution) = 2
    /\ data[1].taskDistribution[2].name = "Schedule"
    /\ data[1].totalTasksCompleted = 2

\* C18: for a fixed snapshot and a fixed today, bestStreak, currentStreak and
\* mostProductiveDay are the same whatever range is requested: what an
\* aggregator has computed for the requested range is what it computes for
\* every other range.
C18_StreaksIndependentOfRange ==
    \A range \in Ranges(now, tz) \ {None} :
        /\ data # None =>
              LET other == LocalAnalytics(snapshot, tasksMatrix, range, now, tz)
              IN  /\ other.bestStreak = data[1].bestStreak
                  /\ other.currentStreak = data[1].currentStreak
                  /\ other.mostProductiveDay = data[1].mostProductiveDay
        /\ remote # None =>
              LET other == RemoteAnalytics(RemoteRows(snapshot), range, now, tz)
              IN  /\ other.bestStreak = remote[1].bestStreak
                  /\ other.mostProductiveDay = remote[1].mostProductiveDay

\* the snapshot holds two habits, A and B, each completed on 2024-01-01,
\* 2024-01-02 and 2024-01-03 and on no other day, and today is 2024-01-10
TwoHabitsThreeDays ==
    /\ Len(snapshot) = 2
    /\ snapshot[1].name = <<"A">>
    /\ snapshot[2].name = <<"B">>
    /\ \A j \in 1..2 :
          {d \in DOMAIN snapshot[j].completions :
              Truthy(snapshot[j].completions, d)} = 0..2
    /\ LocalToday = 9

\* C19: with the two habits A and B completed on 2024-01-01 to 2024-01-03 and
\* today = 2024-01-10 the aggregator gives bestStreak = 3 and
\* currentStreak = 0.
C19_PastRunIsBestNotCurrent ==
    TwoHabitsThreeDays /\ data # None =>
        /\ data[1].bestStreak = 3
        /\ data[1].currentStreak = 0

\* the aggregator has run over the two habits on 2024-01-10
C19_Witness ==
    /\ TwoHabitsThreeDays
    /\ data # None
    /\ data[1].bestStreak = 3
    /\ data[1].currentStreak = 0
    /\ data[1].totalHabits = 2

-----------------------------------------------------------------------------
(* Bounds of the streaks of the local aggregator.                          *)

\* C30: for every snapshot and every today the streaks of the local
\* aggregator satisfy 0 <= currentStreak <= bestStreak <= 365.
C30_StreaksOrderedAndBounded ==
    data # None =>
        /\ 0 <= data[1].currentStreak
        /\ data[1].currentStreak <= data[1].bestStreak
        /\ data[1].bestStreak <= 365

\* the aggregator has run over a habit completed on every day of the scanned
\* year and before: both streaks are at their bound
C30_Witness ==
    /\ data # None
    /\ Len(snapshot) = 1
    /\ \A k \in 0..365 : Truthy(snapshot[1].completions, LocalToday - k)
    /\ data[1].currentStreak = 365
    /\ data[1].bestStreak = 365

-----------------------------------------------------------------------------
(* Acceptance of the create form.                                          *)

\* the conditions under which a form is to be accepted: the base fields are
\* valid and, with frequency custom, daysPerWeek is in 1..7 and the numeric
\* field of the chosen customType is in its range; the other numeric field
\* does not count, and without frequency custom none of the custom fields does
MeetsConditions(f) ==
    /\ Len(Trim(f.name)) >= 1
    /\ Len(Trim(f.name)) <= 50
    /\ f.leavesAllowedPerMonth >= 0
    /\ f.leavesAllowedPerMonth <= 31
    /\ f.frequency = "custom" =>
          /\ f.daysPerWeek >= 1
          /\ f.daysPerWeek <= 7
          /\ f.customType = "time-based" =>
                f.minutesPerDay >= 1 /\ f.minutesPerDay <= 1440
          /\ f.customType = "count-based" =>
                f.countPerDay >= 1 /\ f.countPerDay <= 100

\* C25: addHabit appends a habit exactly when the form meets the conditions;
\* for a custom habit the value of the numeric field that is not shown has no
\* part in it, and for another frequency customType, minutesPerDay,
\* countPerDay and daysPerWeek have none.
C25_AcceptsExactlyValidForms ==
    [][\A f \in FormInputs :
          addHabitOn(f) =>
              (Len(habits') = Len(habits) + 1 <=> MeetsConditions(f))]_vars

-----------------------------------------------------------------------------
(* Deleted tasks of the matrix TaskList.                                   *)

\* the ids of the tasks of all quadrants
MatrixIds(tm) == UNION { IdsOf(tm[q]) : q \in DOMAIN tm }

\* a step of one of the handlers of the task cards and of the edit dialog
\* other than addTask
CardEvent ==
    \/ \E q \in TaskQuadrants, i \in 1..MaxTasks : handleDragStart(q, i)
    \/ \E q \in TaskQuadrants : handleDragOver(q)
    \/ handleDragLeave
    \/ \E q \in TaskQuadrants : handleDrop(q)
    \/ \E q \in TaskQuadrants, i \in 1..MaxTasks : toggleTask(q, i)
    \/ updateTask
    \/ \E q \in TaskQuadrants, i \in 1..MaxTasks : deleteTask(q, i)

\* C26: once deleteTask has removed a task, no handleDragStart,
\* handleDragOver, handleDragLeave, handleDrop, toggleTask, updateTask or
\* deleteTask brings a task with its id back into a quadrant: none of these
\* handlers puts into the matrix an id that the matrix does not hold, also
\* when handleDrop runs while draggedTask still holds the deleted task.
C26_DeletedTaskStaysDeleted ==
    [][CardEvent => MatrixIds(tasks') \subseteq MatrixIds(tasks)]_vars

-----------------------------------------------------------------------------
(* The habit shown by the detail dialog.                                   *)

\* C27: while the detail dialog is open, the habit it shows, selectedHabit,
\* is the record the store holds under the same id, after every operation of
\* the store; after onToggleCompletion it has the toggled completions.
C27_DialogShowsStoredHabit ==
    selectedHabit # None =>
        \E i \in DOMAIN habits :
            /\ habits[i].id = selectedHabit[1].id
            /\ habits[i] = selectedHabit[1]

-----------------------------------------------------------------------------
(* The readers of today's completion.                                      *)

\* isCompletedToday of HabitTracker at instant t: the key is the UTC date
isCompletedToday(habit, t) == Truthy(habit.completions, ISODate(t))

\* the loop of getCurrentStreak of HabitDetailView from iteration i on: the
\* days are those of the local calendar, counted back from today
RECURSIVE CurrentStreakFrom(_, _, _)
CurrentStreakFrom(habit, today, i) ==
    IF i < ScanDays /\ Truthy(habit.completions, today - i)
    THEN 1 + CurrentStreakFrom(habit, today, i + 1)
    ELSE 0

\* getCurrentStreak of HabitDetailView at instant t in a time zone
getCurrentStreak(habit, t, offset) ==
    CurrentStreakFrom(habit, FormatDate(t, offset), 0)

\* getWeekView of HabitDetailView: the last seven local days, today last
getWeekView(habit, t, offset) ==
    [k \in 1..7 |->
        LET dateStr == FormatDate(t, offset) - (7 - k)
        IN  [dateStr |-> dateStr,
             completed |-> Truthy(habit.completions, dateStr),
             label |-> FormatEEE(dateStr)]]

\* C28: at every instant and in every time zone the key toggleHabit writes
\* for today is the key under which the readers look today up: a habit that
\* the check button has just set completed is completed today for
\* isCompletedToday, for the streak and the week view of the detail view, and
\* for the streak loop of the aggregator.
C28_TodayKeySharedByReaders ==
    [][\A i \in 1..MaxHabits :
          (CheckClick(i) /\ Truthy(habits'[i].completions, ISODate(now))) =>
              /\ ISODate(now) = LocalToday
              /\ isCompletedToday(habits'[i], now)
              /\ getCurrentStreak(habits'[i], now, tz) >= 1
              /\ getWeekView(habits'[i], now, tz)[7].completed
              /\ anyCompleted(habits', LocalToday)]_vars
-----------------------------------------------------------------------------
(* C24: for one snapshot of at least one habit, one requested range and    *)
(* one current day, the remote aggregator and the local aggregator return  *)
(* equal values in every field they share: completionRate, bestStreak,     *)
(* mostProductiveDay, the day, date and completed of each weeklyProgress   *)
(* entry, and dailyDetails.                                                *)

\* the day, date and completed of the entries of a weeklyProgress
SharedProgress(progress) ==
    [i \in DOMAIN progress |->
        [day |-> progress[i].day, date |-> progress[i].date,
         completed |-> progress[i].completed]]

C24_RemoteEqualsLocal ==
    (data # None /\ remote # None /\ dateRange # None /\ Len(snapshot) >= 1) =>
        /\ remote[1].completionRate = data[1].completionRate
        /\ remote[1].bestStreak = data[1].bestStreak
        /\ remote[1].mostProductiveDay = data[1].mostProductiveDay
        /\ SharedProgress(remote[1].weeklyProgress)
              = SharedProgress(data[1].weeklyProgress)
        /\ remote[1].dailyDetails = data[1].dailyDetails
-----------------------------------------------------------------------------
(* Persistence: the tab contents of the page (Tabs renders the content of  *)
(* the selected tab only), the load and save effects of HabitTracker, the  *)
(* effect and the storage listener of the local-storage aggregator, and a  *)
(* second tab of the browser running HabitTracker over the same storage.   *)
(* A storage event is dispatched to the other documents of the origin,     *)
(* never to the document that wrote.                                       *)

\* the state HabitTracker is constructed with
StoreReset ==
    /\ habits' = <<>>
    /\ showForm' = FALSE
    /\ newHabit' = DefaultForm
    /\ editingId' = Null
    /\ editForm' = DefaultForm
    /\ selectedHabit' = None
    /\ validationErrors' = NoErrors
    /\ editValidationErrors' = NoErrors

\* the Habits tab is selected: HabitTracker is rendered for the first time
MountHabitTracker ==
    /\ view = "tasks"
    /\ view' = "habits:mounting"
    /\ StoreReset
    /\ UNCHANGED <<toast, clockVars, aggVars, taskVars, storedHabits,
                   otherHabits, storageEvent, loading>>

\* the effects after the first render. The load effect hands the parsed entry
\* to setHabits, and JSON.parse is not guarded: a text it does not accept
\* throws out of the effect and the tree is unmounted. The save effect writes
\* the habits of the first render, the empty array; when the load effect has
\* thrown it has run or it has not.
HabitMountEffects ==
    /\ view = "habits:mounting"
    /\ \/ /\ storedHabits.kind = "absent"
          /\ storedHabits' = setItem(storedHabits, habits)
          /\ view' = "habits"
          /\ UNCHANGED habits
       \/ /\ storedHabits.kind = "json"
          /\ habits' = storedHabits.value
          /\ storedHabits' = setItem(storedHabits, habits)
          /\ view' = "habits:rendering"
       \/ /\ storedHabits.kind = "malformed"
          /\ storedHabits' \in {storedHabits, setItem(storedHabits, habits)}
          /\ view' = "habits:crashed"
          /\ UNCHANGED habits
    /\ UNCHANGED <<showForm, newHabit, editingId, editForm, selectedHabit,
                   validationErrors, editValidationErrors, toast, clockVars,
                   aggVars, taskVars, otherHabits, storageEvent, loading>>

\* the render with the loaded habits and the save effect after it
HabitSettleEffects ==
    /\ view = "habits:rendering"
    /\ view' = "habits"
    /\ storedHabits' = setItem(storedHabits, habits)
    /\ UNCHANGED <<storeVars, clockVars, aggVars, taskVars, otherHabits,
                   storageEvent, loading>>

\* another tab is selected: HabitTracker and its state are discarded
UnmountHabitTracker ==
    /\ view = "habits"
    /\ DialogClosed
    /\ view' = "tasks"
    /\ StoreReset
    /\ UNCHANGED <<toast, clockVars, aggVars, taskVars, storedHabits,
                   otherHabits, storageEvent, loading>>

\* the page is loaded again after the tree was unmounted by an error
Reload ==
    /\ view = "habits:crashed"
    /\ view' = "habits:mounting"
    /\ StoreReset
    /\ UNCHANGED <<toast, clockVars, aggVars, taskVars, storedHabits,
                   otherHabits, storageEvent, loading>>

\* the handlers of HabitTracker, which run while it is shown
TrackerStep ==
    /\ view = "habits"
    /\ \/ ToggleShowForm
       \/ addHabitOn([DefaultForm EXCEPT !.name = <<"a">>])
       \/ \E i \in 1..MaxHabits : startEditing(i)
       \/ updateHabitOn([DefaultForm EXCEPT !.name = <<"b">>])
       \/ \E i \in 1..MaxHabits : deleteHabit(i)
       \/ \E i \in 1..MaxHabits : CheckClick(i)

MaxShared == 1    \* habits each of the two tabs holds at most

\* the handlers of HabitTracker that the two-tab specification runs
SharedStep ==
    /\ view = "habits"
    /\ \/ ToggleShowForm
       \/ /\ Len(habits) < MaxShared
          /\ addHabitOn([DefaultForm EXCEPT !.name = <<"a">>])
       \/ \E i \in 1..MaxHabits : CheckClick(i)

\* the Analytics tab is selected: the hook is constructed with no data
MountAnalytics ==
    /\ view = "tasks"
    /\ view' = "analytics:mounting"
    /\ data' = None
    /\ loading' = TRUE
    /\ dateRange' = None
    /\ UNCHANGED <<snapshot, tasksMatrix, remote, storeVars, clockVars,
                   taskVars, storedHabits, otherHabits, storageEvent>>

\* calculateAnalytics over the storage, for the range the effect was run
\* with. The parsed entries are the habits and the matrix it computes from;
\* a text JSON.parse does not accept throws into the catch, which only logs
\* and calls setLoading(false).
calculateAnalyticsFor(range) ==
    /\ IF storedHabits.kind = "malformed"
       THEN UNCHANGED <<snapshot, tasksMatrix, data>>
       ELSE LET hs == storedHabits.value
                tm == IF storedMatrix = None THEN EmptyTaskMatrix
                      ELSE storedMatrix[1]
            IN  /\ snapshot' = hs
                /\ tasksMatrix' = tm
                /\ data' = Some(LocalAnalytics(hs, tm, range, now, tz))
    /\ loading' = FALSE

\* the effect of the hook after the first render: it runs calculateAnalytics
\* and adds it as the listener of the storage event
AnalyticsEffect ==
    /\ view = "analytics:mounting"
    /\ view' = "analytics"
    /\ calculateAnalyticsFor(dateRange)
    /\ storageEvent' = FALSE
    /\ UNCHANGED <<dateRange, remote, storeVars, clockVars, taskVars,
                   storedHabits, otherHabits>>

\* the storage event is dispatched: the listener runs calculateAnalytics
storageListener ==
    /\ view = "analytics"
    /\ storageEvent
    /\ storageEvent' = FALSE
    /\ calculateAnalyticsFor(dateRange)
    /\ UNCHANGED <<dateRange, remote, view, storeVars, clockVars, taskVars,
                   storedHabits, otherHabits>>

\* the ranges picked in the analytics view: the last 7 days and today alone
PickedRanges ==
    {Some([from |-> now - 6 * 24, to |-> Some(now)]),
     Some([from |-> Midnight(FormatDate(now, tz), tz), to |-> None])}

\* setDate(range): the effect is cleaned up and run again with the range
PickRange(range) ==
    /\ view = "analytics"
    /\ range # dateRange
    /\ dateRange' = range
    /\ calculateAnalyticsFor(range)
    /\ UNCHANGED <<remote, view, storageEvent, storeVars, clockVars, taskVars,
                   storedHabits, otherHabits>>

\* another tab is selected: the listener is removed, the hook is discarded
UnmountAnalytics ==
    /\ view \in {"analytics:mounting", "analytics"}
    /\ view' = "tasks"
    /\ data' = None
    /\ loading' = TRUE
    /\ dateRange' = None
    /\ storageEvent' = FALSE
    /\ UNCHANGED <<snapshot, tasksMatrix, remote, storeVars, clockVars,
                   taskVars, storedHabits, otherHabits>>

\* a variant of Signals in which no write is signalled
SignalsNothing(v, previous, written) == FALSE

\* a write of the second tab that changes the entry queues a storage event
\* for this document; it reaches calculateAnalytics when the listener is added
Signals(v, previous, written) == v = "analytics" /\ written # previous

\* the second tab writes its habits hs
OtherWrites(hs) ==
    /\ otherHabits' = Some(hs)
    /\ storedHabits' = setItem(storedHabits, hs)
    /\ storageEvent' = (storageEvent \/ Signals(view, storedHabits, storedHabits'))
    /\ UNCHANGED <<view, loading, storeVars, clockVars, aggVars, taskVars>>

\* the second tab opens the page: its HabitTracker is mounted and its effects
\* run, the save effect first with the empty array and then with what the
\* load effect has read
OtherOpen ==
    /\ otherHabits = None
    /\ storedHabits.kind # "malformed"
    /\ otherHabits' = Some(storedHabits.value)
    /\ storedHabits' = setItem(setItem(storedHabits, <<>>), storedHabits.value)
    /\ storageEvent' = (storageEvent \/ Signals(view, storedHabits, setItem(storedHabits, <<>>)))
    /\ UNCHANGED <<view, loading, storeVars, clockVars, aggVars, taskVars>>

\* addHabit, toggleHabit and deleteHabit in the second tab
OtherAdd ==
    /\ otherHabits # None
    /\ Len(otherHabits[1]) < MaxShared
    /\ OtherWrites(Append(otherHabits[1],
                          NewHabitRecord([DefaultForm EXCEPT !.name = <<"c">>], now + 1)))

OtherToggle(i) ==
    /\ otherHabits # None
    /\ i \in DOMAIN otherHabits[1]
    /\ OtherWrites(Toggled(otherHabits[1], otherHabits[1][i].id, ISODate(now)))

OtherDelete(i) ==
    /\ otherHabits # None
    /\ i \in DOMAIN otherHabits[1]
    /\ OtherWrites(FilterOut(otherHabits[1], otherHabits[1][i].id))

\* the second tab is closed
OtherClose ==
    /\ otherHabits # None
    /\ otherHabits' = None
    /\ UNCHANGED <<storedHabits, view, storageEvent, loading, storeVars,
                   clockVars, aggVars, taskVars>>

\* the entries the page is opened over: none, the empty array, a habit
\* completed on 2024-01-01, and a text that is not JSON
InitialBlobs ==
    {Absent, Stringify(<<>>), Stringify(<<StoredHabit(<<"s">>, Run(0, 0))>>),
     Malformed}

PersistInit ==
    /\ StoreInit
    /\ now = StartOfSession
    /\ tz = 0
    /\ AggIdle
    /\ TasksIdle
    /\ storedHabits \in InitialBlobs
    /\ view = "tasks"
    /\ otherHabits = None
    /\ storageEvent = FALSE
    /\ loading = TRUE

\* SpecSingle: one tab
SingleNext ==
    \/ MountHabitTracker
    \/ HabitMountEffects
    \/ HabitSettleEffects
    \/ UnmountHabitTracker
    \/ Reload
    \/ TrackerStep
    \/ MountAnalytics
    \/ AnalyticsEffect
    \/ \E range \in PickedRanges : PickRange(range)
    \/ UnmountAnalytics

SpecSingle ==
    /\ PersistInit
    /\ [][SingleNext]_vars
    /\ WF_vars(HabitMountEffects)
    /\ WF_vars(HabitSettleEffects)

\* SpecPersist: two tabs
PersistNext ==
    \/ MountHabitTracker
    \/ HabitMountEffects
    \/ HabitSettleEffects
    \/ UnmountHabitTracker
    \/ Reload
    \/ SharedStep
    \/ MountAnalytics
    \/ AnalyticsEffect
    \/ \E range \in PickedRanges : PickRange(range)
    \/ UnmountAnalytics
    \/ storageListener
    \/ OtherOpen
    \/ OtherAdd
    \/ \E i \in 1..MaxHabits : OtherToggle(i)
    \/ \E i \in 1..MaxHabits : OtherDelete(i)
    \/ OtherClose

\* the steps of AnalyticsEffect and of storageListener, told by what they do
\* to view and storageEvent: effects that are pending run, and an event that
\* is queued is dispatched
EffectRuns == view = "analytics:mounting" /\ view' = "analytics"
EventDispatched ==
    view = "analytics" /\ view' = view /\ storageEvent /\ storageEvent' = FALSE

SpecPersist ==
    /\ PersistInit
    /\ [][PersistNext]_vars
    /\ WF_view(EffectRuns)
    /\ WF_storageEvent(EventDispatched)
-----------------------------------------------------------------------------
(* C22: whenever the snapshot of the habit store or of the task store      *)
(* changes, by an add, update, delete or toggle persisted in this tab or   *)
(* in another one, or the requested range changes, while an analytics view *)
(* is mounted, the aggregator eventually runs again on the new snapshot:   *)
(* the data shown does not stay derived from an older snapshot or range.   *)

\* the data the aggregator derives from what the storage holds now
Fresh ==
    data = Some(LocalAnalytics(storedHabits.value,
                               IF storedMatrix = None THEN EmptyTaskMatrix
                               ELSE storedMatrix[1],
                               dateRange, now, tz))

C22_AnalyticsRecomputedEventually ==
    (view = "analytics" /\ storedHabits.kind # "malformed" /\ ~Fresh)
        ~> (Fresh \/ view # "analytics")

\* the analytics view shows the habit the second tab has added and toggled,
\* over a picked range
C22_Witness ==
    /\ view = "analytics"
    /\ ~storageEvent
    /\ dateRange # None
    /\ otherHabits # None
    /\ Len(otherHabits[1]) = 1
    /\ otherHabits[1][1].name = <<"c">>
    /\ Truthy(otherHabits[1][1].completions, ISODate(now))
    /\ snapshot = otherHabits[1]
    /\ Fresh
-----------------------------------------------------------------------------
(* C23: with two tabs that each hold their own habits, loaded from the one *)
(* "habits" entry, the entry after each write is the whole collection of   *)
(* the tab that wrote, whatever the order of the tabs' mutations. Nothing  *)
(* is merged: what the other tab has written since the writer loaded is    *)
(* not in the entry, and a write of the other tab changes nothing in this  *)
(* tab but the queued storage event, on which the analytics are computed   *)
(* again.                                                                  *)

\* a mutation of the habits of this tab and of the second tab
TabOneWrites == SharedStep /\ habits' # habits
TabTwoWrites ==
    \/ OtherAdd
    \/ \E i \in 1..MaxHabits : OtherToggle(i)
    \/ \E i \in 1..MaxHabits : OtherDelete(i)

C23_LastWriterWins ==
    [][/\ TabOneWrites =>
            /\ storedHabits' = Stringify(habits')
            /\ otherHabits' = otherHabits
       /\ TabTwoWrites =>
            /\ storedHabits' = Stringify(otherHabits'[1])
            /\ UNCHANGED <<storeVars, aggVars, loading, view>>]_vars

\* this tab has written last, and the habit the second tab added after this
\* tab had loaded is not in the entry
C23_Witness ==
    /\ view = "habits"
    /\ Len(habits) = 1
    /\ storedHabits = Stringify(habits)
    /\ otherHabits # None
    /\ \E i \in DOMAIN otherHabits[1] :
          /\ otherHabits[1][i].name = <<"c">>
          /\ otherHabits[1][i].id \notin IdsOf(storedHabits.value)
-----------------------------------------------------------------------------
(* C29: with one tab, after HabitTracker is mounted and after every add,   *)
(* update, delete and toggle, the "habits" entry is the text of the habits *)
(* in memory once the pending effects have run; and a mount over an entry  *)
(* that holds habits ends with the same habits in the entry: the empty     *)
(* array the first save effect writes does not stay.                       *)

\* the entries of the initial states that hold habits
EntriesWithHabits == {b \in InitialBlobs : b.kind = "json" /\ b.value # <<>>}

C29_EntryFollowsMemory ==
    /\ [](view = "habits" => storedHabits = Stringify(habits))
    /\ (view = "habits:mounting" /\ storedHabits.kind # "malformed")
          ~> (view = "habits" /\ storedHabits = Stringify(habits))
    /\ \A b \in EntriesWithHabits :
          (view = "habits:mounting" /\ storedHabits = b)
             ~> (view = "habits" /\ storedHabits = b /\ habits = b.value)

\* HabitTracker has been mounted over the stored habit, the habit has been
\* toggled and one more has been added, and the entry holds both
C29_Witness ==
    /\ view = "habits"
    /\ Len(habits) = 2
    /\ habits[1].name = <<"s">>
    /\ Truthy(habits[1].completions, ISODate(now))
    /\ storedHabits = Stringify(habits)
-----------------------------------------------------------------------------
(* C21: when the "habits" entry holds a text that is not JSON, reading it  *)
(* does not crash the component that reads it: the failure is caught and   *)
(* the reader goes on with its empty default. HabitTracker then shows no   *)
(* habits, and the aggregator sets the data it computes from an empty      *)
(* snapshot, so that the dashboard leaves its loading state with data.     *)

C21_MalformedEntryReadsAsEmpty ==
    /\ view # "habits:crashed"
    /\ (view = "analytics" /\ storedHabits = Malformed) =>
          /\ ~loading
          /\ data = Some(LocalAnalytics(<<>>, EmptyTaskMatrix, dateRange, now, tz))

=============================================================================
